---- MODULE Spec2Model ----
(***************************************************************************)
(* A model of quickjs.hpp, the C++ binding layer over the QuickJS engine   *)
(* (the header is the body of src/gtest/tests.cpp, lines 412-2946).        *)
(*                                                                         *)
(* Part 1 (specifications Spec, SpecMethods): the handle tracker,          *)
(* quickjs::value, quickjs::context and quickjs::runtime lifetimes.        *)
(* Part 2 (specifications SpecExc, SpecThunks): the exception bridge       *)
(* between native callbacks, script frames and native boundary calls.      *)
(* Part 3 (specification SpecShared): the weak-identity table of shared    *)
(* class instances.                                                        *)
(* Part 4 (specifications SpecCalls, SpecMarshal): calling functions, the  *)
(* argument list a native callable receives.                               *)
(* Part 5 (specification SpecBoundary): failures of host operations at the *)
(* native boundary.                                                        *)
(* Part 6 (specifications SpecClasses, SpecClassFailures, SpecMakeObject): *)
(* class registration and construction of class instances.                 *)
(* Part 7 (specification SpecTeardown): the bulk invalidation of a         *)
(* context's values when releasing a value runs a class finalizer.         *)
(* Part 8 (specification SpecClassRecords): the life of the class_info     *)
(* records of a context through moves, abandonment and destruction.        *)
(***************************************************************************)
EXTENDS Integers, Sequences, FiniteSets, TLC

NULL == 0
\* the engine's exception marker in place of an object
JS_EXCEPTION == -1

\* Host-side quickjs::value objects the host program has storage for.
NumValues == 2
\* Host-side quickjs::context objects (and engine JSContexts) available.
NumContexts == 2
\* Engine values (JSValue references) a handle can refer to.
NumRefs == 2
\* References handed to the engine by steal() and not yet dropped by it.
MaxHanded == 1

Values == 1..NumValues
Contexts == 1..NumContexts
JSCtxs == 1..NumContexts
Refs == 1..NumRefs

VARIABLES
    rt,      \* quickjs::runtime: [alive, contexts_]
    cobj,    \* quickjs::context objects: [life, ctx_, owner_, values_]
    jsctx,   \* engine JSContext: [state, opaque]
    vobj,    \* quickjs::value objects: [life, ctx_, val_, owner_]
    refcnt,  \* engine reference count per engine value
    handed,  \* references whose ownership steal() passed to the engine
    ub,      \* a freed JSContext was dereferenced (undefined behaviour)
    last     \* outcome of the last value method call

lifeVars == <<rt, cobj, jsctx, vobj, refcnt, handed, ub, last>>

VARIABLES
    stack,              \* active frames, outermost first: boundary call, script, native callback
    clevel_,            \* context::clevel_
    excpt_,             \* context::excpt_, the pending forwarded exception
    current_exception,  \* the engine's pending script exception
    sig,                \* what the frame that just finished hands to the frame below
    caught,             \* what the script catch blocks observed, in order
    thrown,             \* the failure a callback or script raised, and the stack then
    hostResult          \* what the outermost native caller received

excVars == <<stack, clevel_, excpt_, current_exception, sig, caught, thrown, hostResult>>

VARIABLES
    wobj,               \* engine wrapper objects: [state, rc, inst]
    weak_object_refs_,  \* runtime::weak_object_refs_
    wref,               \* references to wrappers held by script or host
    sptr                \* shared_ptr<T> copies held by host code

sharedVars == <<wobj, weak_object_refs_, wref, sptr>>

VARIABLES
    obs      \* the last function call: what was passed, what the callee saw

callVars == <<obs>>

VARIABLES
    op       \* the last host operation at the boundary and how it ended

boundaryVars == <<op>>

VARIABLES
    registered,  \* class ids registered with the engine runtime (JS_NewClass)
    classes_,    \* per context: the class table, class id -> class_info
    class_proto, \* per context: the engine's class prototype (JS_SetClassProto)
    binding,     \* per context: the constructor bound to the global name
    made,        \* constructor/prototype objects created so far
    reg          \* the last register_class / make_object call

classVars == <<registered, classes_, class_proto, binding, made, reg>>

VARIABLES
    inst,    \* the last make_object call and its out-parameter inst
    walk,    \* one context with class instances: [values_, val, rc, ctx, visited, outcome]
    records  \* the class_info records of each context object, and the last destructions

extraVars == <<inst, walk, records>>

laterVars == <<callVars, boundaryVars, classVars, extraVars>>

vars == <<lifeVars, excVars, sharedVars, laterVars>>

----------------------------------------------------------------------------
\* Sequence helpers for the intrusive list (detail::list_entry / detail::owner)

RECURSIVE Remove(_, _)
Remove(s, e) ==
    IF s = <<>> THEN <<>>
    ELSE IF Head(s) = e THEN Remove(Tail(s), e)
    ELSE <<Head(s)>> \o Remove(Tail(s), e)

Range(s) == {s[i] : i \in 1..Len(s)}

\* The whole lifetime state as one record, so that the operators below can
\* be composed in the order of the statements of the code.
Heap == [v |-> vobj, c |-> cobj, j |-> jsctx, r |-> refcnt, rt |-> rt, ub |-> ub]

Commit(H) ==
    /\ vobj' = H.v
    /\ cobj' = H.c
    /\ jsctx' = H.j
    /\ refcnt' = H.r
    /\ rt' = H.rt
    /\ ub' = H.ub

NoValue == [life |-> "none", ctx_ |-> NULL, val_ |-> NULL, owner_ |-> NULL]
EmptyValue == [life |-> "live", ctx_ |-> NULL, val_ |-> NULL, owner_ |-> NULL]
NoContext == [life |-> "none", ctx_ |-> NULL, owner_ |-> NULL, values_ |-> <<>>]
NoCall == [method |-> "none", obj |-> NULL, outcome |-> "none"]

\* list_entry::is_linked for a value: it is on some context's values_ list
is_linked(H, e) == \E k \in Contexts : e \in Range(H.c[k].values_)

\* list_entry::unlink
unlink(H, e) ==
    [H EXCEPT !.c = [k \in Contexts |-> [H.c[k] EXCEPT !.values_ = Remove(@, e)]]]

\* owner<value>::insert_head
insert_head(H, k, e) == [H EXCEPT !.c[k].values_ = <<e>> \o @]

\* A JSContext pointer that may be dereferenced
ctx_usable(H, j) == j # NULL /\ H.j[j].state = "live"

\* value::valid
valid(val) == val.ctx_ # NULL

\* JS_DupValue / JS_FreeValue through JSContext j: touching a freed
\* JSContext is undefined behaviour
JS_DupValue(H, j, o) ==
    IF ctx_usable(H, j) THEN [H EXCEPT !.r[o] = @ + 1] ELSE [H EXCEPT !.ub = TRUE]

JS_FreeValue(H, j, o) ==
    IF ctx_usable(H, j) THEN [H EXCEPT !.r[o] = @ - 1] ELSE [H EXCEPT !.ub = TRUE]

\* value::untrack
value_untrack(H, e) ==
    IF H.v[e].owner_ # NULL
    THEN [unlink(H, e) EXCEPT !.v[e].owner_ = NULL]
    ELSE H

\* value::track(): owner_ = &get_context(), i.e. JS_GetContextOpaque(ctx_)
value_track(H, e) ==
    IF H.v[e].owner_ = NULL /\ H.v[e].ctx_ # NULL
    THEN IF ctx_usable(H, H.v[e].ctx_)
         THEN LET k == H.j[H.v[e].ctx_].opaque
              IN insert_head([H EXCEPT !.v[e].owner_ = k], k, e)
         ELSE [H EXCEPT !.ub = TRUE]
    ELSE H

\* value::track(value& from)
value_track_from(H, e, from) ==
    LET H1 == IF H.v[from].owner_ # NULL THEN value_untrack(H, from) ELSE H
        H2 == IF H1.v[e].owner_ # NULL
              THEN [unlink(H1, e) EXCEPT !.v[e].owner_ = NULL]
              ELSE H1
    IN IF H2.v[e].ctx_ # NULL
       THEN IF ctx_usable(H2, H2.v[e].ctx_)
            THEN LET k == H2.j[H2.v[e].ctx_].opaque
                 IN insert_head([H2 EXCEPT !.v[e].owner_ = k], k, e)
            ELSE [H2 EXCEPT !.ub = TRUE]
       ELSE H2

\* value::value(JSContext*, JSValue): takes an already owned reference o
value_ctor(H, e, j, o) ==
    value_track([H EXCEPT !.v[e] = [life |-> "live", ctx_ |-> j, val_ |-> o, owner_ |-> NULL],
                          !.r[o] = @ + 1], e)

\* value::value(const value& other)
value_copy_ctor(H, e, other) ==
    LET H1 == [H EXCEPT !.v[e] = [life |-> "live", ctx_ |-> H.v[other].ctx_,
                                  val_ |-> NULL, owner_ |-> NULL]]
    IN IF H1.v[e].ctx_ # NULL
       THEN LET H2 == value_track(H1, e)
                H3 == JS_DupValue(H2, H2.v[e].ctx_, H.v[other].val_)
            IN [H3 EXCEPT !.v[e].val_ = H.v[other].val_]
       ELSE H1

\* value::value(value&& from)
value_move_ctor(H, e, from) ==
    LET H1 == [H EXCEPT !.v[e] = [life |-> "live", ctx_ |-> H.v[from].ctx_,
                                  val_ |-> H.v[from].val_, owner_ |-> NULL],
                        !.v[from].ctx_ = NULL,
                        !.v[from].val_ = NULL]
    IN IF H1.v[e].ctx_ # NULL THEN value_track_from(H1, e, from) ELSE H1

\* value::operator=(const value& other)
value_copy_assign(H, e, other) ==
    LET H1 == IF H.v[e].ctx_ # NULL
              THEN LET U == value_untrack(H, e)
                   IN JS_FreeValue(U, U.v[e].ctx_, U.v[e].val_)
              ELSE H
        H2 == [H1 EXCEPT !.v[e].ctx_ = H.v[other].ctx_]
    IN IF H2.v[e].ctx_ # NULL
       THEN LET H3 == value_track(H2, e)
                H4 == JS_DupValue(H3, H3.v[e].ctx_, H.v[other].val_)
            IN [H4 EXCEPT !.v[e].val_ = H.v[other].val_]
       ELSE [H2 EXCEPT !.v[e].val_ = NULL]

\* value::operator=(value&& from)
value_move_assign(H, e, from) ==
    LET H1 == IF H.v[e].ctx_ # NULL
              THEN LET F == JS_FreeValue(H, H.v[e].ctx_, H.v[e].val_)
                   IN IF F.v[from].ctx_ = NULL THEN value_untrack(F, e) ELSE F
              ELSE IF H.v[from].ctx_ # NULL THEN value_track(H, e) ELSE H
        H2 == [H1 EXCEPT !.v[e].ctx_ = H.v[from].ctx_,
                         !.v[from].ctx_ = NULL,
                         !.v[e].val_ = H.v[from].val_,
                         !.v[from].val_ = NULL]
    IN IF H2.v[e].ctx_ # NULL THEN value_untrack(H2, from) ELSE H2

\* value::~value
value_dtor(H, e) ==
    LET H1 == IF H.v[e].ctx_ # NULL
              THEN JS_FreeValue(H, H.v[e].ctx_, H.v[e].val_)
              ELSE H
        H2 == value_untrack(H1, e)
    IN [H2 EXCEPT !.v[e] = NoValue]

\* value::steal: the reference is neither released nor untracked
value_steal(H, e) == [H EXCEPT !.v[e].ctx_ = NULL, !.v[e].val_ = NULL]

\* value::abandon
value_abandon(H, e) ==
    LET H1 == IF H.v[e].ctx_ # NULL
              THEN JS_FreeValue(H, H.v[e].ctx_, H.v[e].val_)
              ELSE H
        H2 == IF H1.v[e].owner_ # NULL
              THEN unlink([H1 EXCEPT !.v[e].owner_ = NULL], e)
              ELSE H1
    IN [H2 EXCEPT !.v[e].ctx_ = NULL, !.v[e].val_ = NULL]

----------------------------------------------------------------------------
\* quickjs::context and quickjs::runtime

RT == 1   \* the one quickjs::runtime object

\* context::valid
context_valid(H, k) == H.c[k].owner_ # NULL /\ H.c[k].ctx_ # NULL

\* list_entry::unlink for a context: off the runtime's contexts_ list
context_unlink(H, k) == [H EXCEPT !.rt.contexts_ = Remove(@, k)]

\* context::untrack
context_untrack(H, k) ==
    IF H.c[k].owner_ # NULL
    THEN [context_unlink(H, k) EXCEPT !.c[k].owner_ = NULL]
    ELSE H

\* JS_FreeContext: the runtime it belongs to must still exist
JS_FreeContext(H, j) ==
    IF H.rt.alive /\ ctx_usable(H, j)
    THEN [H EXCEPT !.j[j].state = "freed"]
    ELSE [H EXCEPT !.ub = TRUE]

\* JS_SetContextOpaque
JS_SetContextOpaque(H, j, k) ==
    IF j = NULL THEN H
    ELSE IF ctx_usable(H, j) THEN [H EXCEPT !.j[j].opaque = k]
    ELSE [H EXCEPT !.ub = TRUE]

\* context::track(): owner_ = &get_runtime()
context_track(H, k) ==
    IF H.c[k].owner_ = NULL /\ H.c[k].ctx_ # NULL
    THEN [H EXCEPT !.c[k].owner_ = RT, !.rt.contexts_ = <<k>> \o @]
    ELSE H

\* context::track(context& from)
context_track_from(H, k, from) ==
    LET H1 == IF H.c[from].owner_ # NULL THEN context_untrack(H, from) ELSE H
        H2 == IF H1.c[k].owner_ # NULL
              THEN [context_unlink(H1, k) EXCEPT !.c[k].owner_ = NULL]
              ELSE H1
    IN IF H2.c[k].ctx_ # NULL
       THEN [H2 EXCEPT !.c[k].owner_ = RT, !.rt.contexts_ = <<k>> \o @]
       ELSE H2

\* context::context(runtime* own, JSRuntime* rt): owner_ is initialised to
\* own before track() runs
context_ctor(H, k, j) ==
    LET H1 == [H EXCEPT !.c[k] = [life |-> "live", ctx_ |-> j, owner_ |-> RT,
                                  values_ |-> <<>>],
                        !.j[j] = [state |-> "live", opaque |-> k]]
    IN context_track(H1, k)

\* context::context(context&& from)
context_move_ctor(H, k, from) ==
    LET H1 == [H EXCEPT !.c[k] = [life |-> "live", ctx_ |-> H.c[from].ctx_,
                                  owner_ |-> H.c[from].owner_, values_ |-> <<>>],
                        !.c[from].ctx_ = NULL]
        H2 == JS_SetContextOpaque(H1, H1.c[k].ctx_, k)
    IN context_track_from(H2, k, from)

\* context::operator=(context&& from): the unique_ptr assignment frees the
\* JSContext that k owned; values_ and classes_ are not touched
context_move_assign(H, k, from) ==
    LET H0 == IF H.c[k].ctx_ # NULL THEN JS_FreeContext(H, H.c[k].ctx_) ELSE H
        H1 == [H0 EXCEPT !.c[k].ctx_ = H.c[from].ctx_, !.c[from].ctx_ = NULL]
        H2 == JS_SetContextOpaque(H1, H1.c[k].ctx_, k)
    IN context_track_from(H2, k, from)

\* context::for_each over values_ with value::abandon, in list order
RECURSIVE abandon_all(_, _)
abandon_all(H, s) ==
    IF s = <<>> THEN H ELSE abandon_all(value_abandon(H, Head(s)), Tail(s))

\* context::~context, then the destruction of its members (ctx_ last)
context_dtor(H, k) ==
    LET H1 == abandon_all(H, H.c[k].values_)
        H2 == context_untrack(H1, k)
        H3 == IF H2.c[k].ctx_ # NULL
              THEN JS_FreeContext(JS_SetContextOpaque(H2, H2.c[k].ctx_, NULL),
                                  H2.c[k].ctx_)
              ELSE H2
    IN [H3 EXCEPT !.c[k] = NoContext]

\* context::abandon, called by the runtime
context_abandon(H, k) ==
    LET H1 == IF H.c[k].ctx_ # NULL
              THEN [JS_FreeContext(JS_SetContextOpaque(H, H.c[k].ctx_, NULL), H.c[k].ctx_)
                    EXCEPT !.c[k].ctx_ = NULL]
              ELSE H
    IN IF H1.c[k].owner_ # NULL
       THEN [context_unlink(H1, k) EXCEPT !.c[k].owner_ = NULL]
       ELSE H1

RECURSIVE abandon_contexts(_, _)
abandon_contexts(H, s) ==
    IF s = <<>> THEN H ELSE abandon_contexts(context_abandon(H, Head(s)), Tail(s))

\* runtime::~runtime, then JS_FreeRuntime by the destruction of rt_
runtime_dtor(H) ==
    LET H1 == abandon_contexts(H, H.rt.contexts_)
    IN [H1 EXCEPT !.rt.alive = FALSE]

----------------------------------------------------------------------------
\* The public methods of quickjs::value other than valid() and abandon()

\* methods whose first statement is validate()
Predicates == {"is_null", "is_undefined", "is_exception", "is_function",
               "is_number", "is_object", "is_string", "is_bool"}
ThrowingConversions == {"as_bool", "as_double", "as_int32", "as_uint32",
                        "as_int64", "as_string", "as_cstring"}
Accessors == {"get_context", "get_property", "set_property", "call",
              "call_member"}
\* the conversions that take an output parameter and return a success flag
FlagConversions == {"as_bool_out", "as_double_out", "as_int32_out",
                    "as_uint32_out", "as_int64_out", "as_string_out"}
Methods == Predicates \cup ThrowingConversions \cup Accessors \cup FlagConversions

NoContextError == "value_exception: no context"

\* value::validate: throw_value_exception("no context") unless valid()
validate_unchecked(val) == "ok"
validate(val) == IF valid(val) THEN "ok" ELSE NoContextError

\* What a method call on the value does; engine_ok is whether the engine's
\* conversion succeeds when it is reached.
method_result(val, m, engine_ok) ==
    IF m \in FlagConversions
    THEN IF ~valid(val) THEN "returns false"
         ELSE IF engine_ok THEN "returns true" ELSE "returns false"
    ELSE IF validate(val) # "ok" THEN validate(val)
    ELSE IF m \in ThrowingConversions /\ ~engine_ok
         THEN "value_exception: not a value of that type"
         ELSE "ok"

----------------------------------------------------------------------------
\* Part 1: what the host program can do with values, contexts and the runtime

InitLife ==
    /\ rt = [alive |-> TRUE, contexts_ |-> <<>>]
    /\ cobj = [k \in Contexts |-> NoContext]
    /\ jsctx = [j \in JSCtxs |-> [state |-> "unused", opaque |-> NULL]]
    /\ vobj = [e \in Values |-> NoValue]
    /\ refcnt = [o \in Refs |-> 0]
    /\ handed = [o \in Refs |-> 0]
    /\ ub = FALSE
    /\ last = NoCall

\* quickjs::context ctx = rt.new_context(), the returned object constructed
\* in place (copy elision)
NewContext(k, j) ==
    /\ ~ub /\ rt.alive
    /\ cobj[k].life = "none" /\ jsctx[j].state = "unused"
    /\ Commit(context_ctor(Heap, k, j))
    /\ UNCHANGED handed /\ last' = NoCall
    /\ UNCHANGED <<excVars, sharedVars, laterVars>>

\* the same statement without elision: the temporary tmp is built by
\* new_context, k is move-constructed from it, tmp is destroyed
NewContextMoved(k, tmp, j) ==
    /\ ~ub /\ rt.alive
    /\ k # tmp
    /\ cobj[k].life = "none" /\ cobj[tmp].life = "none"
    /\ jsctx[j].state = "unused"
    /\ Commit(context_dtor(context_move_ctor(context_ctor(Heap, tmp, j), k, tmp), tmp))
    /\ UNCHANGED handed /\ last' = NoCall
    /\ UNCHANGED <<excVars, sharedVars, laterVars>>

\* quickjs::context k(std::move(from)) of a context in use
MoveConstructContext(k, from) ==
    /\ ~ub /\ rt.alive
    /\ k # from
    /\ cobj[k].life = "none"
    /\ cobj[from].life = "live" /\ cobj[from].ctx_ # NULL
    /\ Commit(context_move_ctor(Heap, k, from))
    /\ UNCHANGED handed /\ last' = NoCall
    /\ UNCHANGED <<excVars, sharedVars, laterVars>>

\* k = std::move(from) onto a default-constructed, moved-from or live k
MoveAssignContext(k, from) ==
    /\ ~ub /\ rt.alive
    /\ k # from
    /\ cobj[k].life = "live"
    /\ cobj[from].life = "live" /\ cobj[from].ctx_ # NULL
    /\ Commit(context_move_assign(Heap, k, from))
    /\ UNCHANGED handed /\ last' = NoCall
    /\ UNCHANGED <<excVars, sharedVars, laterVars>>

DestroyContext(k) ==
    /\ ~ub
    /\ cobj[k].life = "live"
    /\ Commit(context_dtor(Heap, k))
    /\ UNCHANGED handed /\ last' = NoCall
    /\ UNCHANGED <<excVars, sharedVars, laterVars>>

DestroyRuntime ==
    /\ ~ub /\ rt.alive
    /\ Commit(runtime_dtor(Heap))
    /\ UNCHANGED handed /\ last' = NoCall
    /\ UNCHANGED <<excVars, sharedVars, laterVars>>

\* value v(); a never-initialised value
DefaultValue(e) ==
    /\ ~ub
    /\ vobj[e].life = "none"
    /\ vobj' = [vobj EXCEPT ![e] = EmptyValue]
    /\ UNCHANGED <<rt, cobj, jsctx, refcnt, handed, ub>> /\ last' = NoCall
    /\ UNCHANGED <<excVars, sharedVars, laterVars>>

\* a factory of context k (get_global_object, eval): validate(), then
\* value(ctx, <new reference>)
NewValue(e, k, o) ==
    /\ ~ub
    /\ vobj[e].life = "none"
    /\ cobj[k].life = "live" /\ context_valid(Heap, k)
    /\ Commit(value_ctor(Heap, e, cobj[k].ctx_, o))
    /\ UNCHANGED handed /\ last' = NoCall
    /\ UNCHANGED <<excVars, sharedVars, laterVars>>

\* the result of a property get or a call on the valid value w:
\* value(ctx_, <new reference>)
ResultValue(e, w, o) ==
    /\ ~ub
    /\ vobj[e].life = "none"
    /\ vobj[w].life = "live" /\ valid(vobj[w])
    /\ IF ctx_usable(Heap, vobj[w].ctx_)
       THEN Commit(value_ctor(Heap, e, vobj[w].ctx_, o))
       ELSE Commit([Heap EXCEPT !.ub = TRUE])
    /\ UNCHANGED handed /\ last' = NoCall
    /\ UNCHANGED <<excVars, sharedVars, laterVars>>

CopyConstruct(e, w) ==
    /\ ~ub
    /\ vobj[e].life = "none" /\ vobj[w].life = "live"
    /\ Commit(value_copy_ctor(Heap, e, w))
    /\ UNCHANGED handed /\ last' = NoCall
    /\ UNCHANGED <<excVars, sharedVars, laterVars>>

MoveConstruct(e, w) ==
    /\ ~ub
    /\ vobj[e].life = "none" /\ vobj[w].life = "live"
    /\ Commit(value_move_ctor(Heap, e, w))
    /\ UNCHANGED handed /\ last' = NoCall
    /\ UNCHANGED <<excVars, sharedVars, laterVars>>

CopyAssign(e, w) ==
    /\ ~ub
    /\ e # w /\ vobj[e].life = "live" /\ vobj[w].life = "live"
    /\ Commit(value_copy_assign(Heap, e, w))
    /\ UNCHANGED handed /\ last' = NoCall
    /\ UNCHANGED <<excVars, sharedVars, laterVars>>

MoveAssign(e, w) ==
    /\ ~ub
    /\ e # w /\ vobj[e].life = "live" /\ vobj[w].life = "live"
    /\ Commit(value_move_assign(Heap, e, w))
    /\ UNCHANGED handed /\ last' = NoCall
    /\ UNCHANGED <<excVars, sharedVars, laterVars>>

DestroyValue(e) ==
    /\ ~ub
    /\ vobj[e].life = "live"
    /\ Commit(value_dtor(Heap, e))
    /\ UNCHANGED handed /\ last' = NoCall
    /\ UNCHANGED <<excVars, sharedVars, laterVars>>

\* steal() hands the reference to the engine (set_property, a thunk's result)
Steal(e) ==
    /\ ~ub
    /\ vobj[e].life = "live" /\ valid(vobj[e])
    /\ handed[vobj[e].val_] < MaxHanded
    /\ handed' = [handed EXCEPT ![vobj[e].val_] = @ + 1]
    /\ Commit(value_steal(Heap, e))
    /\ last' = NoCall
    /\ UNCHANGED <<excVars, sharedVars, laterVars>>

\* the engine drops a reference it was handed
EngineRelease(o) ==
    /\ ~ub /\ rt.alive
    /\ handed[o] > 0
    /\ handed' = [handed EXCEPT ![o] = @ - 1]
    /\ refcnt' = [refcnt EXCEPT ![o] = @ - 1]
    /\ UNCHANGED <<rt, cobj, jsctx, vobj, ub>> /\ last' = NoCall
    /\ UNCHANGED <<excVars, sharedVars, laterVars>>

Abandon(e) ==
    /\ ~ub
    /\ vobj[e].life = "live"
    /\ Commit(value_abandon(Heap, e))
    /\ UNCHANGED handed /\ last' = NoCall
    /\ UNCHANGED <<excVars, sharedVars, laterVars>>

\* a method call v.m(...); the engine's conversion can fail only when it is
\* reached, i.e. on a valid value
CallMethod(e, m) ==
    /\ ~ub
    /\ vobj[e].life = "live"
    /\ IF valid(vobj[e]) /\ ~ctx_usable(Heap, vobj[e].ctx_)
       THEN ub' = TRUE /\ last' = NoCall
       ELSE /\ ub' = ub
            /\ \E engine_ok \in (IF valid(vobj[e]) /\ m \notin Predicates \cup Accessors
                                 THEN BOOLEAN ELSE {TRUE}) :
                 last' = [method |-> m, obj |-> e,
                          outcome |-> method_result(vobj[e], m, engine_ok)]
    /\ UNCHANGED <<rt, cobj, jsctx, vobj, refcnt, handed>>
    /\ UNCHANGED <<excVars, sharedVars, laterVars>>

NextLife ==
    \/ \E k \in Contexts, j \in JSCtxs : NewContext(k, j)
    \/ \E k \in Contexts, tmp \in Contexts, j \in JSCtxs : NewContextMoved(k, tmp, j)
    \/ \E k \in Contexts : DestroyContext(k)
    \/ DestroyRuntime
    \/ \E e \in Values : DefaultValue(e)
    \/ \E e \in Values, k \in Contexts, o \in Refs : NewValue(e, k, o)
    \/ \E e \in Values, w \in Values, o \in Refs : ResultValue(e, w, o)
    \/ \E e \in Values, w \in Values : CopyConstruct(e, w)
    \/ \E e \in Values, w \in Values : MoveConstruct(e, w)
    \/ \E e \in Values, w \in Values : CopyAssign(e, w)
    \/ \E e \in Values, w \in Values : MoveAssign(e, w)
    \/ \E e \in Values : DestroyValue(e)
    \/ \E e \in Values : Steal(e)
    \/ \E o \in Refs : EngineRelease(o)
    \/ \E e \in Values : Abandon(e)


\* The host program that keeps to one context and one engine value and
\* calls the methods of its values: every kind of invalid value arises
\* (never initialised, moved-from, stolen, abandoned by hand or by the
\* destruction of the context).
NextMethods ==
    \/ NewContext(1, 1)
    \/ DestroyContext(1)
    \/ \E e \in Values : DefaultValue(e)
    \/ \E e \in Values : NewValue(e, 1, 1)
    \/ \E e \in Values, w \in Values : CopyConstruct(e, w)
    \/ \E e \in Values, w \in Values : MoveConstruct(e, w)
    \/ \E e \in Values, w \in Values : MoveAssign(e, w)
    \/ \E e \in Values : DestroyValue(e)
    \/ \E e \in Values : Steal(e)
    \/ \E e \in Values : Abandon(e)
    \/ \E e \in Values, m \in Methods : CallMethod(e, m)


----------------------------------------------------------------------------
\* Properties of Part 1

\* the context object a value was created through, by its JSContext
CreatedThrough(e, j) == vobj[e].life = "live" /\ vobj[e].ctx_ = j

\* C1: after a Context is destroyed (its JSContext freed while the runtime
\* lives), every Value created through it and still held reports
\* valid() = false, however it was obtained.
C1_DestroyedContextInvalidatesValues ==
    rt.alive =>
        \A e \in Values :
            (vobj[e].life = "live" /\ valid(vobj[e]))
                => jsctx[vobj[e].ctx_].state = "live"

\* C2: after the Runtime is destroyed, every Context still held reports
\* valid() = false and every Value still held reports valid() = false.
C2_DestroyedRuntimeInvalidatesAll ==
    ~rt.alive =>
        /\ \A k \in Contexts : cobj[k].life = "live" => ~context_valid(Heap, k)
        /\ \A e \in Values : vobj[e].life = "live" => ~valid(vobj[e])

\* a move of the valid value w into e (construction or assignment) is taken
MoveStep(e, w) ==
    /\ vobj[w].life = "live" /\ valid(vobj[w])
    /\ ctx_usable(Heap, vobj[w].ctx_)
    /\ MoveConstruct(e, w) \/ MoveAssign(e, w)
    /\ ~ub'

\* C5: moving a valid Value w into e leaves e valid, holding w's reference
\* and linked in the tracked-value list of w's Context, leaves w invalid and
\* unlinked, and neither duplicates nor releases the moved reference.
C5_MoveTransfersReferenceAndTracking ==
    [][\A e \in Values, w \in Values :
        MoveStep(e, w) =>
            LET k == jsctx[vobj[w].ctx_].opaque
                o == vobj[w].val_
            IN  /\ valid(vobj'[e])
                /\ vobj'[e].val_ = o
                /\ vobj'[e].ctx_ = vobj[w].ctx_
                /\ vobj'[e].owner_ = k
                /\ e \in Range(cobj'[k].values_)
                /\ ~valid(vobj'[w])
                /\ \A c \in Contexts : w \notin Range(cobj'[c].values_)
                /\ refcnt'[o] = refcnt[o] - (IF vobj[e].val_ = o THEN 1 ELSE 0)
      ]_lifeVars

\* C6 as stated: every method other than valid() and abandon(), called on
\* an invalid Value, raises the invalid-context error.
C6_EveryMethodRaisesOnInvalid ==
    (last.method # "none" /\ ~valid(vobj[last.obj]))
        => last.outcome = NoContextError

\* C6: on an invalid Value the methods that start with validate() raise
\* value_exception("no context"); the conversions that return a success
\* flag return false and raise nothing.
C6_InvalidValueMethods ==
    (last.method # "none" /\ ~valid(vobj[last.obj]))
        => IF last.method \in FlagConversions
           THEN last.outcome = "returns false"
           ELSE last.outcome = NoContextError

\* a flag-returning conversion was called on a stolen value (still on its
\* context's list, invalid) and returned false
C6_Witness ==
    /\ last.method \in FlagConversions
    /\ vobj[last.obj].life = "live" /\ ~valid(vobj[last.obj])
    /\ vobj[last.obj].owner_ # NULL
    /\ last.outcome = "returns false"

\* the heap in which the value e was never initialised instead
NeverInitialised(H, e) == [unlink(H, e) EXCEPT !.v[e] = EmptyValue]

\* what host code can observe of a heap: the references and the context
\* each value holds, which context will invalidate it on teardown, the
\* engine's reference counts
Observable(H) ==
    [v |-> [x \in Values |->
              IF valid(H.v[x]) THEN H.v[x] ELSE [H.v[x] EXCEPT !.owner_ = NULL]],
     tracked |-> [k \in Contexts |->
              {x \in Range(H.c[k].values_) : valid(H.v[x])}],
     r |-> H.r, ub |-> H.ub]

\* the same operation gives the same observable result on H and on G
SameBehaviour(H, G, e) ==
    /\ \A m \in Methods, ok \in BOOLEAN :
          method_result(H.v[e], m, ok) = method_result(G.v[e], m, ok)
    /\ Observable(value_abandon(H, e)) = Observable(value_abandon(G, e))
    /\ Observable(value_dtor(H, e)) = Observable(value_dtor(G, e))
    /\ \A w \in Values \ {e} :
          H.v[w].life = "live" =>
              /\ Observable(value_copy_assign(H, e, w))
                    = Observable(value_copy_assign(G, e, w))
              /\ Observable(value_move_assign(H, e, w))
                    = Observable(value_move_assign(G, e, w))
              /\ Observable(value_copy_assign(H, w, e))
                    = Observable(value_copy_assign(G, w, e))
              /\ Observable(value_move_assign(H, w, e))
                    = Observable(value_move_assign(G, w, e))
    /\ \A n \in Values \ {e} :
          H.v[n].life = "none" =>
              /\ Observable(value_copy_ctor(H, n, e)) = Observable(value_copy_ctor(G, n, e))
              /\ Observable(value_move_ctor(H, n, e)) = Observable(value_move_ctor(G, n, e))

TrackedBy(e) == {k \in Contexts : e \in Range(cobj[k].values_)}

\* C25: in every reachable state each valid value is linked in the
\* tracked-value list of exactly one context, the context its engine
\* reference belongs to, whatever sequence of construction, copy, move
\* construction, move assignment and steal produced it.
C25_ValidValueTrackedByItsContext ==
    \A e \in Values :
        (vobj[e].life = "live" /\ valid(vobj[e]) /\ ctx_usable(Heap, vobj[e].ctx_)) =>
            /\ TrackedBy(e) = {jsctx[vobj[e].ctx_].opaque}
            /\ vobj[e].owner_ = jsctx[vobj[e].ctx_].opaque

\* C27: whatever the order in which host code destroys the runtime, its
\* contexts and their values, no engine reference is released and no
\* context is torn down through a JSContext or runtime that was already
\* freed, and once the engine heap is released no value still holds an
\* engine reference.
C27_NoUseOfFreedEnvironment ==
    /\ ~ub
    /\ ~rt.alive =>
          \A e \in Values : vobj[e].life = "live" => vobj[e].val_ = NULL

\* The host program that also moves contexts that are in use
NextContextMove ==
    \/ NextLife
    \/ \E k \in Contexts, from \in Contexts : MoveConstructContext(k, from)
    \/ \E k \in Contexts, from \in Contexts : MoveAssignContext(k, from)

\* C29: moving a context that has live values (move construction, or move
\* assignment onto an empty or a live context) keeps the source's values
\* valid and tracked by the destination context object, and the values of
\* a context overwritten by move assignment are invalidated before its
\* JSContext is released.
C29_ContextMoveCarriesValues ==
    [][\A k \in Contexts, from \in Contexts :
        (MoveConstructContext(k, from) \/ MoveAssignContext(k, from)) =>
            /\ ~ub'
            /\ \A e \in Values :
                  (vobj[e].life = "live" /\ vobj[e].ctx_ = cobj[from].ctx_) =>
                      /\ valid(vobj'[e])
                      /\ vobj'[e].owner_ = k
                      /\ e \in Range(cobj'[k].values_)
            /\ \A e \in Values :
                  (/\ vobj[e].life = "live" /\ valid(vobj[e])
                   /\ vobj[e].ctx_ = cobj[k].ctx_) => ~valid(vobj'[e])
      ]_lifeVars

----------------------------------------------------------------------------
\* Part 2: the exception bridge

\* nested native-to-script boundary calls in one run
MaxNest == 3

\* script values thrown in the tests, and native exception types that are
\* not throw_exception
Thrown == {"did throw", "test value2"}
Foreign == {"my_exception", "quickjs::invalid_context"}
\* Error objects of the engine
ErrorObjects == {"ReferenceError", "TypeError", "InternalError"}
CatchKinds == {"none", "rethrow", "swallow"}
ThunkKinds == {"closure", "member"}

\* C++ exception objects
NoException == [type |-> "none", val |-> "none"]
throw_exception(v) == [type |-> "throw_exception", val |-> v]
value_exception(v) == [type |-> "value_exception", val |-> v]
value_error(v) == [type |-> "value_error", val |-> v]
foreign(t) == [type |-> t, val |-> "none"]

\* the engine's pending exception
JSNone == [val |-> "none", uncatchable |-> FALSE]
JS_Throw(v) == [val |-> v, uncatchable |-> FALSE]
JS_NewUncatchableError == [val |-> "InternalError", uncatchable |-> TRUE]
\* JS_IsError of a JSValue: the JS_EXCEPTION marker is not an Error object
JS_IsError(jsval) == jsval \in ErrorObjects

\* frames
Boundary(entry) == [kind |-> "boundary", tag |-> entry]
Script(c) == [kind |-> "script", tag |-> c]
Native == [kind |-> "native", tag |-> "-"]
Targets == {Script(c) : c \in CatchKinds} \cup {Native}

Top == stack[Len(stack)]
Pop == SubSeq(stack, 1, Len(stack) - 1)
Nest(S) == Cardinality({i \in DOMAIN S : S[i].kind = "boundary"})

Signal(k) == [k |-> k, ex |-> NoException]
Raise(e) == [k |-> "throw", ex |-> e]
NoThrow == [kind |-> "none", val |-> "none", thunk |-> "-", stack |-> <<>>]
NoResult == [k |-> "none", ex |-> NoException]

\* the context's part of the bridge, so that the operators below can be
\* composed in the order of the statements of the code
Bridge == [excpt_ |-> excpt_, cur |-> current_exception, clevel_ |-> clevel_]
Quiet(B) == [B |-> B, raised |-> NoException]

\* value::do_throw, called on the value this_val with the exception exval
do_throw_nested(level, this_val, exval) == throw_exception(exval)
do_throw_on_exval(level, this_val, exval) ==
    IF JS_IsError(exval) THEN value_error(exval)
    ELSE IF level > 1 THEN throw_exception(exval)
    ELSE value_exception(exval)
do_throw(level, this_val, exval) ==
    IF JS_IsError(this_val) THEN value_error(exval)
    ELSE IF level > 1 THEN throw_exception(exval)
    ELSE value_exception(exval)

\* value::check_throw for a value with ctx_ set iff ret_valid and JSValue
\* jsval: pop_exception and rethrow, else do_throw of JS_GetException
check_throw_unchecked(B, ret_valid, jsval, check_exceptions) == Quiet(B)
check_throw(B, ret_valid, jsval, check_exceptions) ==
    IF ~ret_valid THEN Quiet(B)
    ELSE IF check_exceptions /\ B.excpt_ # NoException
    THEN [B |-> [B EXCEPT !.excpt_ = NoException], raised |-> B.excpt_]
    ELSE IF jsval = "JS_EXCEPTION"
    THEN [B |-> [B EXCEPT !.cur = JSNone],
          raised |-> do_throw(B.clevel_, jsval, B.cur.val)]
    ELSE Quiet(B)

\* the catch handlers shared by the closure thunks and the class thunks
thunk_catch_catchable(B, e) == [B |-> [B EXCEPT !.cur = JS_Throw(e.val)], js |-> "JS_EXCEPTION"]
thunk_catch_forward(B, e) ==
    [B |-> [B EXCEPT !.excpt_ = e, !.cur = JS_NewUncatchableError], js |-> "JS_EXCEPTION"]
thunk_catch(B, e) ==
    IF e.type = "throw_exception"
    THEN [B |-> [B EXCEPT !.cur = JS_Throw(e.val)], js |-> "JS_EXCEPTION"]
    ELSE [B |-> [B EXCEPT !.excpt_ = e, !.cur = JS_NewUncatchableError],
          js |-> "JS_EXCEPTION"]

\* what the callback did: it returned a value (ctx_ set iff valid, JSValue
\* jsval) or threw the C++ exception ex
Returned(ret_valid, jsval) == [k |-> "return", valid |-> ret_valid, jsval |-> jsval, ex |-> NoException]
Threw(e) == [k |-> "throw", valid |-> FALSE, jsval |-> "none", ex |-> e]

\* handle_closure_expand / handle_closure_expand_with_args
handle_closure_expand(B, out) ==
    IF out.k = "throw" THEN thunk_catch(B, out.ex)
    ELSE LET r == check_throw(B, out.valid, out.jsval, TRUE)
         IN  IF r.raised # NoException THEN thunk_catch(r.B, r.raised)
             ELSE [B |-> r.B, js |-> IF out.valid THEN out.jsval ELSE "JS_UNDEFINED"]

\* classes::invoke_member / invoke_getter: no check_throw of the result
invoke_member(B, out) ==
    IF out.k = "throw" THEN thunk_catch(B, out.ex)
    ELSE [B |-> B, js |-> IF out.valid THEN out.jsval ELSE "JS_UNDEFINED"]

thunk(kind, B, out) ==
    IF kind = "closure" THEN handle_closure_expand(B, out) ELSE invoke_member(B, out)

\* context::call_level: the constructor raises the level, the destructor
\* lowers it on every way out of the scope
call_level_ctor(B) == [B EXCEPT !.clevel_ = @ + 1]
call_level_dtor_skipped(B) == B
call_level_dtor(B) == [B EXCEPT !.clevel_ = @ - 1]

CommitBridge(B) ==
    /\ excpt_' = B.excpt_
    /\ current_exception' = B.cur
    /\ clevel_' = B.clevel_

InitExc ==
    /\ stack = <<>>
    /\ clevel_ = 0
    /\ excpt_ = NoException
    /\ current_exception = JSNone
    /\ sig = Signal("idle")
    /\ caught = <<>>
    /\ thrown = NoThrow
    /\ hostResult = NoResult

ExcStep == UNCHANGED <<lifeVars, sharedVars, laterVars>>
Running == hostResult = NoResult

\* host code calls context::eval: no call_level, the script runs
HostEval(c) ==
    /\ Running /\ stack = <<>>
    /\ stack' = <<Boundary("eval"), Script(c)>>
    /\ sig' = Signal("run")
    /\ UNCHANGED <<clevel_, excpt_, current_exception, caught, thrown, hostResult>>
    /\ ExcStep

\* host code calls a function value (operator(), call, call_member,
\* call_global): call_common_args raises the call level, JS_Call runs the
\* script function or the native callback's thunk
HostCall(target) ==
    /\ Running /\ stack = <<>>
    /\ clevel_' = call_level_ctor(Bridge).clevel_
    /\ stack' = <<Boundary("call"), target>>
    /\ sig' = Signal("run")
    /\ UNCHANGED <<excpt_, current_exception, caught, thrown, hostResult>>
    /\ ExcStep

\* script code calls a native function: the engine enters its thunk
ScriptCallsNative ==
    /\ stack # <<>> /\ Top.kind = "script" /\ sig.k = "run"
    /\ stack' = Append(stack, Native)
    /\ UNCHANGED <<clevel_, excpt_, current_exception, sig, caught, thrown, hostResult>>
    /\ ExcStep

\* script code returns normally
ScriptReturns ==
    /\ stack # <<>> /\ Top.kind = "script" /\ sig.k \in {"run", "jsret"}
    /\ stack' = Pop
    /\ sig' = Signal("jsret")
    /\ UNCHANGED <<clevel_, excpt_, current_exception, caught, thrown, hostResult>>
    /\ ExcStep

\* script code executes throw v outside of its try block
ScriptThrows(v) ==
    /\ stack # <<>> /\ Top.kind = "script" /\ sig.k = "run"
    /\ thrown = NoThrow
    /\ thrown' = [kind |-> "script throw", val |-> v, thunk |-> "-", stack |-> stack]
    /\ current_exception' = JS_Throw(v)
    /\ stack' = Pop
    /\ sig' = Signal("jsexc")
    /\ UNCHANGED <<clevel_, excpt_, caught, hostResult>>
    /\ ExcStep

\* the engine unwinds into a script frame: its catch block runs unless the
\* frame has none or the exception is marked uncatchable
ScriptHandles ==
    /\ stack # <<>> /\ Top.kind = "script" /\ sig.k = "jsexc"
    /\ IF Top.tag # "none" /\ ~current_exception.uncatchable
       THEN /\ caught' = Append(caught, [level |-> Len(stack), val |-> current_exception.val])
            /\ IF Top.tag = "rethrow"
               THEN /\ stack' = Pop
                    /\ UNCHANGED <<sig, current_exception>>
               ELSE /\ current_exception' = JSNone
                    /\ sig' = Signal("jsret")
                    /\ UNCHANGED stack
       ELSE /\ stack' = Pop
            /\ UNCHANGED <<sig, current_exception, caught>>
    /\ UNCHANGED <<clevel_, excpt_, thrown, hostResult>>
    /\ ExcStep

\* a native callback calls a function value: call_common_args
NativeCallsBack(target) ==
    /\ stack # <<>> /\ Top.kind = "native" /\ sig.k = "run"
    /\ Nest(stack) < MaxNest
    /\ clevel_' = call_level_ctor(Bridge).clevel_
    /\ stack' = stack \o <<Boundary("call"), target>>
    /\ UNCHANGED <<excpt_, current_exception, sig, caught, thrown, hostResult>>
    /\ ExcStep

\* a native callback calls context::eval
NativeEvals(c) ==
    /\ stack # <<>> /\ Top.kind = "native" /\ sig.k = "run"
    /\ Nest(stack) < MaxNest
    /\ stack' = stack \o <<Boundary("eval"), Script(c)>>
    /\ UNCHANGED <<clevel_, excpt_, current_exception, sig, caught, thrown, hostResult>>
    /\ ExcStep

\* the thunk of kind k finishes with the callback's outcome out, after the
\* callback left the engine's pending exception as cur
ThunkExit(k, cur, out) ==
    LET r == thunk(k, [Bridge EXCEPT !.cur = cur], out)
    IN  /\ CommitBridge(r.B)
        /\ stack' = Pop
        /\ sig' = Signal(IF r.js = "JS_EXCEPTION" THEN "jsexc" ELSE "jsret")

\* the callback returns a value, valid or not (a void callback)
NativeReturns(k, ret_valid) ==
    /\ stack # <<>> /\ Top.kind = "native" /\ sig.k \in {"run", "ret"}
    /\ ThunkExit(k, current_exception, Returned(ret_valid, "value"))
    /\ UNCHANGED <<caught, thrown, hostResult>>
    /\ ExcStep

\* the callback throws throw_exception(value(ctx, v))
NativeThrowsValue(k, v) ==
    /\ stack # <<>> /\ Top.kind = "native" /\ sig.k \in {"run", "ret"}
    /\ thrown = NoThrow
    /\ thrown' = [kind |-> "throw_exception", val |-> v, thunk |-> k, stack |-> stack]
    /\ ThunkExit(k, current_exception, Threw(throw_exception(v)))
    /\ UNCHANGED <<caught, hostResult>>
    /\ ExcStep

\* the callback throws a native exception that is not a throw_exception
NativeThrowsForeign(k, t) ==
    /\ stack # <<>> /\ Top.kind = "native" /\ sig.k \in {"run", "ret"}
    /\ thrown = NoThrow
    /\ thrown' = [kind |-> "foreign", val |-> t, thunk |-> k, stack |-> stack]
    /\ ThunkExit(k, current_exception, Threw(foreign(t)))
    /\ UNCHANGED <<caught, hostResult>>
    /\ ExcStep

\* the callback returns value::exception(ctx, v), value::reference_error or
\* value::type_error: JS_Throw sets the engine's pending exception and the
\* returned value holds the JS_EXCEPTION marker
NativeReturnsException(k, v) ==
    /\ stack # <<>> /\ Top.kind = "native" /\ sig.k \in {"run", "ret"}
    /\ thrown = NoThrow
    /\ thrown' = [kind |-> "exception value", val |-> v, thunk |-> k, stack |-> stack]
    /\ ThunkExit(k, JS_Throw(v), Returned(TRUE, "JS_EXCEPTION"))
    /\ UNCHANGED <<caught, hostResult>>
    /\ ExcStep

\* a C++ exception raised by a boundary call passes through the callback
\* that made the call and reaches its thunk
NativePropagates(k) ==
    /\ stack # <<>> /\ Top.kind = "native" /\ sig.k = "throw"
    /\ ThunkExit(k, current_exception, Threw(sig.ex))
    /\ UNCHANGED <<caught, thrown, hostResult>>
    /\ ExcStep

\* JS_Eval or JS_Call returned to context::eval or call_common_args:
\* check_throw(true), then ~call_level
BoundaryReturns ==
    /\ stack # <<>> /\ Top.kind = "boundary" /\ sig.k \in {"jsret", "jsexc"}
    /\ LET r == check_throw(Bridge, TRUE,
                            IF sig.k = "jsexc" THEN "JS_EXCEPTION" ELSE "value", TRUE)
           level == IF Top.tag = "call" THEN call_level_dtor(r.B).clevel_
                    ELSE r.B.clevel_
           res == IF r.raised # NoException THEN Raise(r.raised) ELSE Signal("ret")
       IN  /\ CommitBridge([r.B EXCEPT !.clevel_ = level])
           /\ stack' = Pop
           /\ IF Len(stack) = 1
              THEN hostResult' = res /\ sig' = Signal("idle")
              ELSE sig' = res /\ UNCHANGED hostResult
    /\ UNCHANGED <<caught, thrown>>
    /\ ExcStep

NextExc ==
    \/ \E c \in CatchKinds : HostEval(c)
    \/ \E t \in Targets : HostCall(t)
    \/ ScriptCallsNative
    \/ ScriptReturns
    \/ \E v \in Thrown : ScriptThrows(v)
    \/ ScriptHandles
    \/ \E t \in Targets : NativeCallsBack(t)
    \/ \E c \in CatchKinds : NativeEvals(c)
    \/ \E k \in ThunkKinds, b \in BOOLEAN : NativeReturns(k, b)
    \/ \E k \in ThunkKinds, v \in Thrown : NativeThrowsValue(k, v)
    \/ \E k \in ThunkKinds, t \in Foreign : NativeThrowsForeign(k, t)
    \/ \E k \in ThunkKinds, v \in Thrown \cup {"ReferenceError", "TypeError"} :
            NativeReturnsException(k, v)
    \/ \E k \in ThunkKinds : NativePropagates(k)
    \/ BoundaryReturns

----------------------------------------------------------------------------
\* Properties of Part 2

\* the frame that invoked the callback (or script) that raised the failure
Invoker == thrown.stack[Len(thrown.stack) - 1]
InvokerLevel == Len(thrown.stack) - 1
\* the exception has not yet been handed to the invoking frame's handler
AtInvoker == Len(stack) = InvokerLevel /\ sig.k = "jsexc"
Finished == hostResult # NoResult
Catching(S) == {i \in DOMAIN S : S[i].kind = "script" /\ S[i].tag # "none"}
Swallowing(S) == {i \in DOMAIN S : S[i] = Script("swallow")}

\* C3: a native exception that is not a throw_exception, thrown in a
\* callback, reaches no script catch block at any depth: it travels as an
\* uncatchable script exception with the original exception pending, every
\* boundary call it reaches re-raises that same exception, and so the
\* outermost native caller receives it.
C3_ForeignExceptionBypassesScript ==
    thrown.kind = "foreign" =>
        /\ caught = <<>>
        /\ sig.k \in {"jsexc", "throw", "idle"}
        /\ sig.k = "jsexc" =>
              current_exception.uncatchable /\ excpt_ = foreign(thrown.val)
        /\ sig.k = "throw" => sig.ex = foreign(thrown.val) /\ excpt_ = NoException
        /\ Finished => hostResult = Raise(foreign(thrown.val))

\* my_exception thrown by a callback that script invoked inside try/catch,
\* two boundary calls deep, has reached the outermost native caller
C3_Witness ==
    /\ thrown.kind = "foreign" /\ thrown.val = "my_exception"
    /\ Nest(thrown.stack) >= 2
    /\ Invoker.kind = "script" /\ Invoker.tag # "none"
    /\ Cardinality(Catching(thrown.stack)) >= 2
    /\ hostResult = Raise(foreign("my_exception"))

\* C7 as stated: at nesting depth two or more no script try/catch observes
\* a wrapped value thrown by a callback.
C7_NoIntermediateCatch ==
    (thrown.kind = "throw_exception" /\ Nest(thrown.stack) >= 2) => caught = <<>>

\* C7: at nesting depth two or more a wrapped value v thrown by a callback
\* is handed to the invoking script frame as an ordinary catchable script
\* exception (nothing is forwarded), that frame's catch block observes v,
\* every catch block that observes anything observes v, and unless a script
\* frame swallows it the outermost native caller receives value_exception(v).
C7_InvokingScriptCatches ==
    (thrown.kind = "throw_exception" /\ Nest(thrown.stack) >= 2) =>
        /\ AtInvoker => current_exception = JS_Throw(thrown.val) /\ excpt_ = NoException
        /\ (Invoker.kind = "script" /\ Invoker.tag # "none" /\ ~AtInvoker) =>
              /\ caught # <<>>
              /\ caught[1] = [level |-> InvokerLevel, val |-> thrown.val]
        /\ \A i \in DOMAIN caught : caught[i].val = thrown.val
        /\ (Finished /\ Swallowing(thrown.stack) = {}) =>
              hostResult = Raise(value_exception(thrown.val))

\* a value thrown three boundary calls deep was observed by two script
\* catch blocks and reached the outermost native caller
C7_Witness ==
    /\ thrown.kind = "throw_exception" /\ Nest(thrown.stack) >= 3
    /\ Len(caught) >= 2
    /\ hostResult = Raise(value_exception(thrown.val))

\* the stack of the test: d boundary calls, each running a script frame
\* that calls the native handler inside try/catch and rethrows
NestedRethrow(S) ==
    /\ Len(S) > 0 /\ Len(S) % 3 = 0
    /\ \A i \in DOMAIN S :
          IF i % 3 = 1 THEN S[i].kind = "boundary" /\ (i > 1 => S[i].tag = "call")
          ELSE IF i % 3 = 2 THEN S[i] = Script("rethrow")
          ELSE S[i] = Native

\* C8: with d nested script frames that call the native handler inside
\* try/catch and rethrow, a throw_exception(v) of the innermost handler is
\* caught by every level exactly once, innermost first, each seeing v, and
\* the outermost native caller then receives value_exception(v).
C8_EveryLevelCatchesOnce ==
    (thrown.kind = "throw_exception" /\ NestedRethrow(thrown.stack) /\ Finished) =>
        LET d == Len(thrown.stack) \div 3
        IN  /\ caught = [l \in 1..d |-> [level |-> 3 * (d - l) + 2, val |-> thrown.val]]
            /\ hostResult = Raise(value_exception(thrown.val))

\* no script frame on the stack has a try/catch
NoCatch(S) == Catching(S) = {}

\* C9: a callback called by host code directly, or through script that does
\* not catch, throws throw_exception(v): the native caller receives
\* value_exception(v).
C9_HostReceivesValueException ==
    (thrown.kind = "throw_exception" /\ NoCatch(thrown.stack) /\ Finished) =>
        hostResult = Raise(value_exception(thrown.val))

\* the callback was called directly by host code and threw "test value2"
C9_Witness ==
    /\ thrown.kind = "throw_exception"
    /\ thrown.stack = <<Boundary("call"), Native>>
    /\ hostResult = Raise(value_exception("test value2"))

\* C10: a callback that returns an exception value makes the script that
\* called it see an exception its try/catch catches, at every call level.
C10_ReturnedExceptionIsCatchable ==
    (/\ thrown.kind = "exception value"
     /\ Invoker.kind = "script" /\ Invoker.tag # "none"
     /\ ~AtInvoker) =>
        /\ caught # <<>>
        /\ caught[1] = [level |-> InvokerLevel, val |-> thrown.val]

ActiveCalls(S) == Cardinality({i \in DOMAIN S : S[i] = Boundary("call")})

\* C31: the context's call level equals the number of function calls from
\* native code into script that are active on the stack; every such call
\* puts the level back when it exits, normally or by any exception, the
\* level is 0 when no call is active, and the assertions of call_level hold
\* (the level is positive after the increment and before the decrement).
C31_CallLevelCountsActiveCalls ==
    /\ clevel_ = ActiveCalls(stack)
    /\ stack = <<>> => clevel_ = 0
    /\ (stack # <<>> /\ Top = Boundary("call")) => clevel_ > 0

\* a native exception thrown by a callback under two active function calls
\* was re-raised to the host code, and the level is back to 0
C31_Witness ==
    /\ stack = <<>> /\ clevel_ = 0
    /\ hostResult.k = "throw" /\ hostResult.ex.type \in Foreign
    /\ thrown.kind = "foreign"
    /\ ActiveCalls(thrown.stack) >= 2

\* ---- exceptions raised by the catch handlers of a thunk ----

\* throw_exception(): the default constructor leaves value_ without a context
throw_exception_default == [type |-> "throw_exception", val |-> "none"]

\* value::steal of the temporary e.val(): validate() raises value_exception
\* for a value without a context, else the JSValue is handed over
steal(v) ==
    IF v = "none" THEN [jsval |-> "none", raised |-> value_exception("no context")]
    ELSE [jsval |-> v, raised |-> NoException]

\* the catch handlers of a thunk, with the exceptions they raise themselves:
\* an exception raised inside catch (const throw_exception&) is not caught
\* by the catch (...) next to it and leaves the thunk
thunk_handlers(B, e) ==
    IF e.type = "throw_exception" /\ steal(e.val).raised # NoException
    THEN [B |-> B, js |-> "none", raised |-> steal(e.val).raised]
    ELSE [B |-> thunk_catch(B, e).B, js |-> thunk_catch(B, e).js, raised |-> NoException]

\* what happens to a C++ exception inside the engine's C frames
Unwinding == {"terminate", "unwind"}

\* the callback throws throw_exception() without a value: the handler's
\* e.val().steal() raises value_exception, which leaves the thunk
NativeThrowsEmpty(k) ==
    /\ stack # <<>> /\ Top.kind = "native" /\ sig.k \in {"run", "ret"}
    /\ thrown = NoThrow
    /\ thrown' = [kind |-> "throw_exception", val |-> "none", thunk |-> k, stack |-> stack]
    /\ LET r == thunk_handlers(Bridge, throw_exception_default)
       IN  /\ CommitBridge(r.B)
           /\ IF r.raised # NoException
              THEN sig' = [k |-> "escaped", ex |-> r.raised] /\ UNCHANGED stack
              ELSE /\ stack' = Pop
                   /\ sig' = Signal(IF r.js = "JS_EXCEPTION" THEN "jsexc" ELSE "jsret")
    /\ UNCHANGED <<caught, hostResult>>
    /\ ExcStep

\* the frame of the nearest boundary call below the top of the stack
NearestBoundary ==
    CHOOSE b \in DOMAIN stack :
        /\ stack[b].kind = "boundary"
        /\ \A i \in DOMAIN stack : stack[i].kind = "boundary" => i <= b

\* a C++ exception in the engine's C frames: the process terminates, or the
\* frames are unwound without the engine's cleanup up to the boundary call
\* that entered the engine, whose call_level is destroyed on the way
EngineUnwinds(outcome) ==
    /\ stack # <<>> /\ sig.k = "escaped"
    /\ IF outcome = "terminate"
       THEN /\ hostResult' = [k |-> "terminate", ex |-> sig.ex]
            /\ sig' = Signal("idle")
            /\ UNCHANGED <<stack, clevel_>>
       ELSE LET b == NearestBoundary
            IN  /\ stack' = SubSeq(stack, 1, b - 1)
                /\ clevel_' = IF stack[b].tag = "call"
                              THEN call_level_dtor(Bridge).clevel_ ELSE clevel_
                /\ IF b = 1
                   THEN hostResult' = Raise(sig.ex) /\ sig' = Signal("idle")
                   ELSE sig' = Raise(sig.ex) /\ UNCHANGED hostResult
    /\ UNCHANGED <<excpt_, current_exception, caught, thrown>>
    /\ ExcStep

NextThunks ==
    \/ NextExc
    \/ \E k \in ThunkKinds : NativeThrowsEmpty(k)
    \/ \E outcome \in Unwinding : EngineUnwinds(outcome)

\* C32: no native exception leaves a callback thunk: whatever the callback
\* throws, a throw_exception without a value included, the thunk returns an
\* engine-level throw to the engine
C32_NoExceptionLeavesThunk == sig.k # "escaped"

----------------------------------------------------------------------------
\* Part 3: wrappers of shared class instances (class_def_shared) and the
\* runtime's weak-identity table

\* addresses a shared native instance can live at
NumInsts == 2
\* engine objects that can exist at once
NumObjs == 3
\* script variables and host values that can hold a wrapper
NumHolders == 3

Insts == 1..NumInsts
Objs == 1..NumObjs
Holders == 1..NumHolders

FreeObj == [state |-> "free", rc |-> 0, inst |-> NULL]
NoEntry == [present |-> FALSE, refs_ |-> 0, weak_val_ |-> NULL]
NoRef == [obj |-> NULL, inst |-> NULL]

\* the runtime's and the engine's part of the state, so that the operators
\* below can be composed in the order of the statements of the code
Table == [map |-> weak_object_refs_, obj |-> wobj]

\* the instance at address i exists: a shared_ptr to it is held by host
\* code, by the opaque pointer of a wrapper, or by the copy that JS_SetOpaque
\* did not store because the wrapper was the exception marker
inst_alive(T, held, i) ==
    \/ held[i]
    \/ \E o \in Objs : T.obj[o].state = "live" /\ T.obj[o].inst = i
    \/ T.map[i].weak_val_ = JS_EXCEPTION

\* runtime::ref_inst_value: insert unless present, then inst_ref::ref
ref_inst_value(T, i, o) ==
    IF T.map[i].present
    THEN [T EXCEPT !.map[i].refs_ = @ + 1]
    ELSE [T EXCEPT !.map[i] = [present |-> TRUE, refs_ |-> 1, weak_val_ |-> o]]

\* runtime::unref_inst_value: inst_ref::unref, erase at zero
unref_inst_value(T, i) ==
    IF T.map[i].refs_ - 1 = 0
    THEN [T EXCEPT !.map[i] = NoEntry]
    ELSE [T EXCEPT !.map[i].refs_ = @ - 1]

\* runtime::get_inst_value: whether an entry was found
get_inst_value_miss(T, i) == FALSE
get_inst_value(T, i) == T.map[i].present

\* JS_NewObjectProtoClass and JS_SetOpaque with a shared_ptr copy
new_wrapper(T, o, i) == [T EXCEPT !.obj[o] = [state |-> "live", rc |-> 1, inst |-> i]]

\* classes::class_make_object_for_inst with o the object the engine would
\* allocate, or the exception marker when JS_NewObjectProtoClass fails (the
\* result is not tested before ref_inst_value): [T, ref] with ref the
\* JSValue returned
class_make_object_for_inst(T, i, o) ==
    IF get_inst_value(T, i)
    THEN LET w == T.map[i].weak_val_
         IN  IF w = JS_EXCEPTION THEN [T |-> T, ref |-> w]
             ELSE [T |-> [T EXCEPT !.obj[w].rc = @ + 1], ref |-> w]
    ELSE IF o = JS_EXCEPTION THEN [T |-> ref_inst_value(T, i, o), ref |-> o]
    ELSE [T |-> ref_inst_value(new_wrapper(T, o, i), i, o), ref |-> o]

\* classes::class_make_inst for a shared class: make_shared at address i
class_make_inst(T, i, o) ==
    [T |-> ref_inst_value(new_wrapper(T, o, i), i, o), ref |-> o]

\* classes::finalizer for a shared class: delete raw, unref_inst_value
finalizer(T, o) ==
    [unref_inst_value(T, T.obj[o].inst) EXCEPT !.obj[o] = FreeObj]

\* JS_FreeValue of a wrapper: the finalizer runs when the count reaches 0
free_wrapper(T, o) ==
    IF T.obj[o].rc = 1 THEN finalizer(T, o)
    ELSE [T EXCEPT !.obj[o].rc = @ - 1]

CommitTable(T) ==
    /\ weak_object_refs_' = T.map
    /\ wobj' = T.obj

SharedStep == UNCHANGED <<lifeVars, excVars, laterVars>>

InitShared ==
    /\ wobj = [o \in Objs |-> FreeObj]
    /\ weak_object_refs_ = [i \in Insts |-> NoEntry]
    /\ wref = [h \in Holders |-> NoRef]
    /\ sptr = [i \in Insts |-> FALSE]

\* host code creates an instance: std::make_shared<T> at a free address
HostMakeShared(i) ==
    /\ ~inst_alive(Table, sptr, i)
    /\ sptr' = [sptr EXCEPT ![i] = TRUE]
    /\ UNCHANGED <<wobj, weak_object_refs_, wref>>
    /\ SharedStep

\* host code drops its shared_ptr
HostDropShared(i) ==
    /\ sptr[i]
    /\ sptr' = [sptr EXCEPT ![i] = FALSE]
    /\ UNCHANGED <<wobj, weak_object_refs_, wref>>
    /\ SharedStep

\* value(ctx, inst): the instance comes from host code or out of a wrapper
WrapInst(h, i, o) ==
    /\ wref[h] = NoRef
    /\ inst_alive(Table, sptr, i)
    /\ wobj[o].state = "free"
    /\ LET r == class_make_object_for_inst(Table, i, o)
       IN  /\ CommitTable(r.T)
           /\ wref' = IF r.ref = JS_EXCEPTION THEN wref
                      ELSE [wref EXCEPT ![h] = [obj |-> r.ref, inst |-> i]]
    /\ UNCHANGED sptr
    /\ SharedStep

\* value(ctx, inst) when the engine cannot allocate the wrapper object
WrapInstFails(i) ==
    /\ inst_alive(Table, sptr, i)
    /\ ~get_inst_value(Table, i)
    /\ CommitTable(class_make_object_for_inst(Table, i, JS_EXCEPTION).T)
    /\ UNCHANGED <<wref, sptr>>
    /\ SharedStep

\* script runs new T(...): the class constructor creates the instance
ScriptNew(h, i, o) ==
    /\ wref[h] = NoRef
    /\ ~inst_alive(Table, sptr, i)
    /\ wobj[o].state = "free"
    /\ LET r == class_make_inst(Table, i, o)
       IN  /\ CommitTable(r.T)
           /\ wref' = [wref EXCEPT ![h] = [obj |-> r.ref, inst |-> i]]
    /\ UNCHANGED sptr
    /\ SharedStep

\* script copies a reference (var o3 = o1)
CopyRef(h, g) ==
    /\ wref[h] = NoRef /\ wref[g] # NoRef
    /\ wobj' = [wobj EXCEPT ![wref[g].obj].rc = @ + 1]
    /\ wref' = [wref EXCEPT ![h] = wref[g]]
    /\ UNCHANGED <<weak_object_refs_, sptr>>
    /\ SharedStep

\* a reference is dropped
DropRef(h) ==
    /\ wref[h] # NoRef
    /\ CommitTable(free_wrapper(Table, wref[h].obj))
    /\ wref' = [wref EXCEPT ![h] = NoRef]
    /\ UNCHANGED sptr
    /\ SharedStep

NextShared ==
    \/ \E i \in Insts : HostMakeShared(i)
    \/ \E i \in Insts : HostDropShared(i)
    \/ \E h \in Holders, i \in Insts, o \in Objs : WrapInst(h, i, o)
    \/ \E h \in Holders, i \in Insts, o \in Objs : ScriptNew(h, i, o)
    \/ \E h \in Holders, g \in Holders : CopyRef(h, g)
    \/ \E h \in Holders : DropRef(h)

NextSharedFailures ==
    \/ NextShared
    \/ \E i \in Insts : WrapInstFails(i)

\* the wrappers of the instance at address i that are not finalized
Wrappers(i) == {o \in Objs : wobj[o].state = "live" /\ wobj[o].inst = i}

\* C23: while the runtime is alive, its weak-identity table has an entry for
\* a shared instance exactly when a wrapper of the instance exists that is
\* not finalized; the entry's count is the number of those wrappers, is
\* never negative, and an entry whose count reached zero is erased.
C23_EntryIffWrapperExists ==
    \A i \in Insts :
        /\ weak_object_refs_[i].present <=> Wrappers(i) # {}
        /\ weak_object_refs_[i].refs_ = Cardinality(Wrappers(i))
        /\ weak_object_refs_[i].refs_ >= 0
        /\ weak_object_refs_[i].refs_ = 0 => weak_object_refs_[i] = NoEntry

\* C4: two script values obtained by wrapping the same shared instance, the
\* second while the first wrapper is alive, are the same script object, and
\* values obtained by wrapping different instances are different objects.
C4_SameInstanceSameWrapper ==
    \A h \in Holders, g \in Holders :
        (wref[h] # NoRef /\ wref[g] # NoRef) =>
            /\ wobj[wref[h].obj].state = "live"
            /\ wobj[wref[h].obj].inst = wref[h].inst
            /\ (wref[h].inst = wref[g].inst) <=> (wref[h].obj = wref[g].obj)

\* two values obtained by wrapping one instance hold the same object (its
\* reference count is 2) while a third value wraps the other instance
\* through another object
C4_Witness ==
    \E h \in Holders, g \in Holders, f \in Holders :
        /\ h # g /\ wref[h] # NoRef /\ wref[g] # NoRef /\ wref[f] # NoRef
        /\ wref[h].inst = wref[g].inst /\ wref[h].obj = wref[g].obj
        /\ wobj[wref[h].obj].rc = 2
        /\ wref[f].inst # wref[h].inst /\ wref[f].obj # wref[h].obj

----------------------------------------------------------------------------
\* The specifications

----------------------------------------------------------------------------
\* Part 4: calling functions (value::operator(), value::call, call_member,
\* context::call_global) and the argument list a native callable receives

\* arguments passed in one call
MaxArgs == 2
\* declared positional parameters of a native callable
MaxArity == 2

\* JSValues used as arguments
JSUndefined == [tag |-> "undefined", val |-> "undefined"]
JSInt(n) == [tag |-> "number", val |-> n]
JSString(str) == [tag |-> "string", val |-> str]
JSObject(name) == [tag |-> "object", val |-> name]
GlobalObject == JSObject("global")
JSVals == {JSInt("1"), JSString("arg2"), JSUndefined}

\* what host code passes: an int32_t, a const char*, a quickjs::value
\* without a context, value::undefined(ctx)
HostInt(n) == [type |-> "int32_t", val |-> n]
HostString(str) == [type |-> "const char*", val |-> str]
HostValue(has_ctx, jsval) == [type |-> IF has_ctx THEN "value" ELSE "value()", val |-> jsval.val]
value_undefined == HostValue(TRUE, JSUndefined)
HostArgs == {HostInt("1"), HostString("arg2"), HostValue(FALSE, JSUndefined)}

ArgLists(S) == UNION {[1..n -> S] : n \in 0..MaxArgs}

\* callables: a script function, a native closure with N positional
\* parameters, a native closure taking const args& and N positional
\* parameters, a class member function, and a value that is no function
ScriptFunction == [kind |-> "script", N |-> 0]
Closure(N) == [kind |-> "closure", N |-> N]
ClosureWithArgs(N) == [kind |-> "closure(args)", N |-> N]
MemberFunction == [kind |-> "member", N |-> 0]
NotAFunction == [kind |-> "undefined", N |-> 0]
Callables ==
    {ScriptFunction, MemberFunction}
        \cup {Closure(N) : N \in 0..MaxArity}
        \cup {ClosureWithArgs(N) : N \in 0..MaxArity}
NativeKinds == {"closure", "closure(args)", "member"}

\* 32-bit integers and script numbers of that size are written
\* hi * 2^16 + lo with lo in 0..2^16-1, which keeps every operand of the
\* arithmetic small; a negative number has a negative hi
Num(hi, lo) == [hi |-> hi, lo |-> lo]
\* the values next to 0, 2^31 and 2^32 that are taken as uint32_t arguments
EdgeWidth == 1
Uint32Samples ==
    {Num(hi, lo) : hi \in {0, 32767, 32768, 65535},
                   lo \in (0..EdgeWidth) \cup ((65535 - EdgeWidth)..65535)}
HostUint(v) == [type |-> "uint32_t", val |-> v]

\* static_cast<int32_t>(val) of a uint32_t: the same 32 bits read as two's
\* complement
static_cast_int32(u) == Num(IF u.hi >= 32768 THEN u.hi - 65536 ELSE u.hi, u.lo)

\* jsvalue_list::new_jsvalue; JS_NewInt32 makes the number of its int32_t
new_jsvalue(arg) ==
    CASE arg.type = "int32_t" -> JSInt(arg.val)
      [] arg.type = "uint32_t" -> JSInt(static_cast_int32(arg.val))
      [] arg.type = "const char*" -> JSString(arg.val)
      [] arg.type = "value" -> [tag |-> IF arg.val = "undefined" THEN "undefined" ELSE "object",
                                val |-> arg.val]
      [] OTHER -> JSUndefined

\* jsvalue_list::add_value over the argument pack, in order
jsvalue_list(a) == [i \in DOMAIN a |-> new_jsvalue(a[i])]

Max(x, y) == IF x > y THEN x ELSE y

\* quickjs::args::args(ctx, N, this_obj, argc, argv)
args_fixed(N, this_obj, argv) ==
    [this_ |-> this_obj,
     a |-> [i \in 1..N |-> IF i <= Len(argv) THEN argv[i] ELSE JSUndefined]]
args(N, this_obj, argv) ==
    [this_ |-> this_obj,
     a |-> [i \in 1..Max(N, Len(argv)) |-> IF i <= Len(argv) THEN argv[i] ELSE JSUndefined]]

\* make_indices<N> and the expansion f((values::convert(a[Is]))...) of
\* handle_closure_expand_helper, for parameters of type const value&
expand_all(N, a) == a.a
expand(N, a) == [i \in 1..N |-> a.a[i]]

NoArgs == [this_ |-> JSUndefined, a |-> <<>>]

\* the thunk of a native callable builds the argument list and calls the
\* callable: what the callable observes
thunk_args(func, this_val, argv) ==
    LET a == args(func.N, this_val, argv)
    IN  CASE func.kind = "closure" ->
                [a |-> a, params |-> expand(func.N, a), list |-> NoArgs]
          [] func.kind = "closure(args)" ->
                [a |-> a, params |-> expand(func.N, a), list |-> a]
          [] OTHER -> [a |-> a, params |-> <<>>, list |-> a]

\* JS_Call: a script function sees this and arguments, a native callable is
\* entered through its thunk, anything else throws the TypeError
JS_Call(func, this_val, argv) ==
    CASE func.kind = "script" ->
            [js |-> "value", cur |-> JSNone, this |-> this_val, arguments |-> argv,
             seen |-> [a |-> NoArgs, params |-> <<>>, list |-> NoArgs]]
      [] func.kind \in NativeKinds ->
            [js |-> "value", cur |-> JSNone, this |-> this_val, arguments |-> argv,
             seen |-> thunk_args(func, this_val, argv)]
      [] OTHER ->
            [js |-> "JS_EXCEPTION", cur |-> JS_Throw("TypeError"), this |-> this_val,
             arguments |-> argv, seen |-> [a |-> NoArgs, params |-> <<>>, list |-> NoArgs]]

\* functions::call_common and call_common_args: the pack becomes JSValues,
\* the call level is raised around JS_Call, check_throw(true) on the result
call_common(func, thisObj, a) ==
    LET argv == jsvalue_list(a)
        this_val == IF thisObj.type = "value" THEN new_jsvalue(thisObj) ELSE JSUndefined
        c == JS_Call(func, this_val, argv)
        r == check_throw([Bridge EXCEPT !.clevel_ = @ + 1, !.cur = c.cur], TRUE, c.js, TRUE)
    IN  [callee |-> c,
         result |-> IF r.raised # NoException THEN Raise(r.raised) ELSE Signal("ret")]

\* value::operator()(a...): this is value::undefined
value_call_operator(func, a) == call_common(func, value_undefined, a)
\* value::call(thisObj, a...)
value_call(func, thisObj, a) == call_common(func, thisObj, a)
\* value::call_member(name, a...) of the object obj
call_member(obj, func, a) == value_call(func, obj, a)
\* context::call_global(name, a...)
call_global(func, a) == value_call_operator(func, <<value_undefined>> \o a)

NoCallYet ==
    [entry |-> "none", func |-> NotAFunction, host |-> <<>>, this |-> JSUndefined,
     argv |-> <<>>, seen |-> [a |-> NoArgs, params |-> <<>>, list |-> NoArgs],
     result |-> NoResult]

Observe(entry, func, a, r) ==
    obs' = [entry |-> entry, func |-> func, host |-> a, this |-> r.callee.this,
            argv |-> r.callee.arguments, seen |-> r.callee.seen, result |-> r.result]

InitCalls == obs = NoCallYet
CallStep == UNCHANGED <<lifeVars, excVars, sharedVars, boundaryVars, classVars, extraVars>>

\* host code: ctx.call_global(name, a...)
CallGlobal(func, a) ==
    /\ Observe("call_global", func, a, call_global(func, a))
    /\ CallStep

\* host code: global.call_member(name, a...)
CallMember(func, a) ==
    /\ Observe("call_member", func, a,
               call_member(HostValue(TRUE, GlobalObject), func, a))
    /\ CallStep

\* host code: f(a...) on a function value
CallOperator(func, a) ==
    /\ Observe("operator()", func, a, value_call_operator(func, a))
    /\ CallStep

\* script code calls the function with the JSValues argv: f(x, y)
ScriptCalls(func, argv) ==
    /\ LET c == JS_Call(func, JSUndefined, argv)
       IN  obs' = [entry |-> "script", func |-> func, host |-> <<>>, this |-> c.this,
                   argv |-> c.arguments, seen |-> c.seen,
                   result |-> Signal(IF c.js = "JS_EXCEPTION" THEN "jsexc" ELSE "jsret")]
    /\ CallStep

NextCalls ==
    \/ \E f \in Callables \cup {NotAFunction}, a \in ArgLists(HostArgs) : CallGlobal(f, a)
    \/ \E f \in Callables \cup {NotAFunction}, a \in ArgLists(HostArgs) : CallMember(f, a)
    \/ \E f \in Callables \cup {NotAFunction}, a \in ArgLists(HostArgs) : CallOperator(f, a)
    \/ \E f \in Callables \cup {NotAFunction}, a \in ArgLists(JSVals) : ScriptCalls(f, a)

\* host code passes uint32_t arguments to a script function
Uint32Args == {HostUint(v) : v \in Uint32Samples}

NextMarshal ==
    \/ \E a \in ArgLists(Uint32Args) : CallMember(ScriptFunction, a)
    \/ \E a \in ArgLists(Uint32Args) : CallOperator(ScriptFunction, a)

\* C33: a uint32_t argument v of a call into script arrives as the number v,
\* for every v in 0..2^32-1, and never as a negative number
C33_Uint32ArrivesAsItsValue ==
    \A i \in DOMAIN obs.host :
        /\ obs.argv[i] = JSInt(obs.host[i].val)
        /\ obs.argv[i].val.hi >= 0

----------------------------------------------------------------------------
\* Part 5: host operations that enter the engine (eval, a function call,
\* get_property, set_property, make_object) and how a failure inside the
\* engine comes back to the host code that made the call

\* what happened inside the engine: nothing, script threw val and did not
\* catch it, or a native callback (a class getter or setter, a closure) that
\* the engine called threw the C++ exception ex and no script caught it
EngineOk == [k |-> "ok", val |-> "none", ex |-> NoException]
ScriptThrew(v) == [k |-> "script throw", val |-> v, ex |-> NoException]
NativeThrew(e) == [k |-> "native throw", val |-> e.val, ex |-> e]
Outcomes ==
    {EngineOk}
        \cup {ScriptThrew(v) : v \in Thrown \cup {"ReferenceError", "TypeError"}}
        \cup {NativeThrew(foreign(t)) : t \in Foreign}
        \cup {NativeThrew(throw_exception(v)) : v \in Thrown}

\* the engine runs and returns a JSValue to the host operation
engine(B, o) ==
    CASE o.k = "ok" -> [B |-> B, js |-> "value"]
      [] o.k = "script throw" -> [B |-> [B EXCEPT !.cur = JS_Throw(o.val)], js |-> "JS_EXCEPTION"]
      [] OTHER -> thunk_catch(B, o.ex)

\* context::store_exception asserts that nothing is stored yet
store_asserts(B, o) ==
    o.k = "native throw" /\ o.ex.type # "throw_exception" /\ B.excpt_ # NoException

\* objects host code sets properties on
Receivers == {"object", "TypeError"}

NoOp ==
    [name |-> "none", this |-> "object", engine |-> EngineOk, before |-> 0, level |-> 0,
     stored |-> NoException, js |-> "none", result |-> NoResult]

InitBoundary == op = NoOp
BoundaryStep ==
    /\ UNCHANGED <<lifeVars, sharedVars, callVars, classVars, extraVars>>
    /\ UNCHANGED <<stack, sig, caught, thrown, hostResult>>

\* the host operation name ran the engine at call level level with outcome
\* o, r is what the engine left, raised the exception the operation threw
Finish(name, this_val, o, level, r, B, raised) ==
    /\ op' = [name |-> name, this |-> this_val, engine |-> o, before |-> clevel_,
              level |-> level, stored |-> excpt_, js |-> r.js,
              result |-> IF raised # NoException THEN Raise(raised) ELSE Signal("ret")]
    /\ CommitBridge(B)
    /\ BoundaryStep

\* an assertion of the code failed: the program is terminated
Aborts(name, this_val, o) ==
    /\ store_asserts(Bridge, o)
    /\ op' = [name |-> name, this |-> this_val, engine |-> o, before |-> clevel_,
              level |-> clevel_, stored |-> excpt_, js |-> "none",
              result |-> Signal("abort")]
    /\ UNCHANGED <<clevel_, excpt_, current_exception>>
    /\ BoundaryStep

Alive == op.result.k # "abort"

\* context::eval: JS_Eval, check_throw(true); no call_level
Eval(o) ==
    /\ Alive
    /\ \/ Aborts("eval", "object", o)
       \/ LET r == engine(Bridge, o)
              c == check_throw(r.B, TRUE, r.js, TRUE)
          IN  Finish("eval", "object", o, clevel_, r, c.B, c.raised)

\* functions::call_common_args: call_level, JS_Call, check_throw(true)
Call(o) ==
    /\ Alive
    /\ \/ Aborts("call", "object", o)
       \/ LET r == engine([Bridge EXCEPT !.clevel_ = @ + 1], o)
              c == check_throw(r.B, TRUE, r.js, TRUE)
          IN  Finish("call", "object", o, clevel_ + 1, r,
                     [c.B EXCEPT !.clevel_ = @ - 1], c.raised)

\* context::make_object: JS_CallConstructor, check_throw(true); no call_level
MakeObject(o) ==
    /\ Alive
    /\ \/ Aborts("make_object", "object", o)
       \/ LET r == engine(Bridge, o)
              c == check_throw(r.B, TRUE, r.js, TRUE)
          IN  Finish("make_object", "object", o, clevel_, r, c.B, c.raised)

\* value::get_property: the JSValue that JS_GetPropertyStr returned is
\* wrapped and returned
GetProperty(this_val, o) ==
    /\ Alive
    /\ \/ Aborts("get_property", this_val, o)
       \/ LET r == engine(Bridge, o)
          IN  Finish("get_property", this_val, o, clevel_, r, r.B, NoException)

\* value::set_property: JS_SetPropertyStr, and when it failed do_throw, on
\* the object, of JS_GetException
SetProperty(this_val, o) ==
    /\ Alive
    /\ \/ Aborts("set_property", this_val, o)
       \/ LET r == engine(Bridge, o)
          IN  IF r.js = "JS_EXCEPTION"
              THEN Finish("set_property", this_val, o, clevel_, r,
                          [r.B EXCEPT !.cur = JSNone],
                          do_throw(r.B.clevel_, this_val, r.B.cur.val))
              ELSE Finish("set_property", this_val, o, clevel_, r, r.B, NoException)

NextBoundary ==
    \/ \E o \in Outcomes : Eval(o)
    \/ \E o \in Outcomes : Call(o)
    \/ \E o \in Outcomes : MakeObject(o)
    \/ \E t \in Receivers, o \in Outcomes : GetProperty(t, o)
    \/ \E t \in Receivers, o \in Outcomes : SetProperty(t, o)

----------------------------------------------------------------------------
\* Part 6: context::register_class and context::make_object

\* native classes with a class definition (a class id from JS_NewClassID)
NumClasses == 2
\* calls of register_class in one run
MaxRegistrations == 3

ClassIds == 1..NumClasses

\* no class_info in the table; objects are numbered from 1
NoInfo == [ctor |-> 0, proto |-> 0]
NoReg ==
    [call |-> "none", ctx |-> 0, id |-> 0, first |-> FALSE, info |-> NoInfo,
     outcome |-> "none"]

InitClasses ==
    /\ registered = [id \in ClassIds |-> 0]
    /\ classes_ = [c \in Contexts |-> [id \in ClassIds |-> NoInfo]]
    /\ class_proto = [c \in Contexts |-> [id \in ClassIds |-> 0]]
    /\ binding = [c \in Contexts |-> [id \in ClassIds |-> 0]]
    /\ made = 0
    /\ reg = NoReg

ClassStep ==
    UNCHANGED <<lifeVars, excVars, sharedVars, callVars, boundaryVars, extraVars>>
Terminated == reg.outcome = "abort"

\* JS_IsRegisteredClass(rt, id)
JS_IsRegisteredClass_never(id) == FALSE
JS_IsRegisteredClass(id) == registered[id] > 0

\* register_class<T>() on context c for the class id of T. When the table
\* already has an entry for id, std::map::insert leaves it in place; the new
\* class_info is destroyed while it still holds its handles, so its
\* destructor's assertion fails, or without assertions the handles leak.
RegisterClass(c, id, asserts) ==
    /\ ~Terminated /\ made < 2 * MaxRegistrations
    /\ IF ~JS_IsRegisteredClass(id) /\ registered[id] > 0
       THEN \* JS_NewClass fails: exception("failed to register class")
            /\ reg' = [call |-> "register_class", ctx |-> c, id |-> id,
                       first |-> classes_[c][id] = NoInfo, info |-> NoInfo,
                       outcome |-> "throws"]
            /\ UNCHANGED <<registered, classes_, class_proto, binding, made>>
       ELSE LET info == [ctor |-> made + 2, proto |-> made + 1]
                fresh == classes_[c][id] = NoInfo
            IN  /\ registered' =
                      IF JS_IsRegisteredClass(id) THEN registered
                      ELSE [registered EXCEPT ![id] = @ + 1]
                /\ made' = made + 2
                /\ class_proto' = [class_proto EXCEPT ![c][id] = info.proto]
                /\ binding' = [binding EXCEPT ![c][id] = info.ctor]
                /\ classes_' = IF fresh THEN [classes_ EXCEPT ![c][id] = info] ELSE classes_
                /\ reg' = [call |-> "register_class", ctx |-> c, id |-> id,
                           first |-> fresh, info |-> info,
                           outcome |-> IF fresh THEN "ok"
                                       ELSE IF asserts THEN "abort" ELSE "leak"]
    /\ ClassStep

\* make_object<T>(args, inst) on context c: get_class_info, then
\* JS_CallConstructor of the constructor in the table
ClassMakeObject(c, id) ==
    /\ ~Terminated
    /\ reg' = [call |-> "make_object", ctx |-> c, id |-> id, first |-> FALSE,
               info |-> classes_[c][id],
               outcome |-> IF classes_[c][id] = NoInfo THEN "throws" ELSE "ok"]
    /\ UNCHANGED <<registered, classes_, class_proto, binding, made>>
    /\ ClassStep

NextClasses ==
    \/ \E c \in Contexts, id \in ClassIds, a \in BOOLEAN : RegisterClass(c, id, a)
    \/ \E c \in Contexts, id \in ClassIds : ClassMakeObject(c, id)

\* the engine calls of register_class that can fail
EngineFailures == {"JS_NewClass", "JS_NewObject", "JS_NewCFunction2"}

\* register_class<T>() on context c when one engine call fails.
\* JS_NewClass < 0 raises exception("failed to register class"). The result
\* of JS_NewObject is not tested: the marker becomes the class prototype and
\* the prototype of the class_info. A constructor that is the marker raises
\* exception("failed to create class constructor"), after the class id was
\* registered and the new prototype was set as the class prototype. Objects
\* are numbered in pairs, as in RegisterClass; the failed one's number stays
\* unused.
RegisterClassFails(c, id, failure, asserts) ==
    /\ ~Terminated /\ made < 2 * MaxRegistrations
    /\ LET fresh == classes_[c][id] = NoInfo
           call == [call |-> "register_class", ctx |-> c, id |-> id, first |-> fresh]
           newclass == IF JS_IsRegisteredClass(id) THEN registered
                       ELSE [registered EXCEPT ![id] = @ + 1]
       IN  CASE failure = "JS_NewClass" ->
                  /\ ~JS_IsRegisteredClass(id)
                  /\ reg' = call @@ [info |-> NoInfo, outcome |-> "throws",
                                     failure |-> failure]
                  /\ UNCHANGED <<registered, classes_, class_proto, binding, made>>
             [] failure = "JS_NewObject" ->
                  LET info == [ctor |-> made + 2, proto |-> JS_EXCEPTION]
                  IN  /\ registered' = newclass
                      /\ made' = made + 2
                      /\ class_proto' = [class_proto EXCEPT ![c][id] = JS_EXCEPTION]
                      /\ binding' = [binding EXCEPT ![c][id] = info.ctor]
                      /\ classes_' = IF fresh THEN [classes_ EXCEPT ![c][id] = info]
                                     ELSE classes_
                      /\ reg' = call @@ [info |-> info, failure |-> failure,
                                         outcome |-> IF fresh THEN "ok"
                                                     ELSE IF asserts THEN "abort"
                                                     ELSE "leak"]
             [] failure = "JS_NewCFunction2" ->
                  /\ registered' = newclass
                  /\ made' = made + 2
                  /\ class_proto' = [class_proto EXCEPT ![c][id] = made + 1]
                  /\ reg' = call @@ [info |-> NoInfo, outcome |-> "throws",
                                     failure |-> failure]
                  /\ UNCHANGED <<classes_, binding>>
    /\ ClassStep

NextClassFailures ==
    \/ NextClasses
    \/ \E c \in Contexts, id \in ClassIds, f \in EngineFailures, a \in BOOLEAN :
          RegisterClassFails(c, id, f, a)

\* what the host variable passed as inst holds before the call
PriorInsts == {"uninitialised", "stale", "null"}

NoMake ==
    [call |-> "none", engine |-> EngineOk, prior |-> "null", result |-> NoResult,
     inst |-> "null"]
InitMake == inst = NoMake

\* context::make_object<T>(args, inst) of a registered class: the boundary
\* operation MakeObject together with its out-parameter. check_throw(true)
\* raises before either assignment to inst is reached, so inst keeps what
\* it held; the else branch (inst = {}) needs a constructor result that is
\* the marker after check_throw returned.
MakeObjectInst(o, prior) ==
    /\ Alive /\ ~store_asserts(Bridge, o)
    /\ LET r == engine(Bridge, o)
           c == check_throw(r.B, TRUE, r.js, TRUE)
       IN  /\ inst' = [call |-> "make_object", engine |-> o, prior |-> prior,
                       result |-> IF c.raised # NoException THEN Raise(c.raised)
                                  ELSE Signal("ret"),
                       inst |-> IF c.raised # NoException THEN prior
                                ELSE IF r.js # "JS_EXCEPTION" THEN "instance"
                                ELSE "null"]
           /\ CommitBridge(c.B)
    /\ UNCHANGED <<lifeVars, sharedVars, callVars, boundaryVars, classVars, walk, records>>
    /\ UNCHANGED <<stack, sig, caught, thrown, hostResult>>

NextMakeObject ==
    \/ NextBoundary
    \/ \E o \in Outcomes, prior \in PriorInsts : MakeObjectInst(o, prior)

----------------------------------------------------------------------------
\* Part 7: ~context's values_.for_each(abandon) on a context whose values
\* hold wrappers of raw-owned class instances, the instances holding member
\* values (my_class::first_arg_) that are tracked by the same context

\* quickjs::value objects, host-held or members of class instances
NumTracked == 3
\* class instances (each with one wrapper object)
NumNative == 1

Tracked == 1..NumTracked
Natives == 1..NumNative

\* a value object: the wrapper its reference is to (0: a string or number),
\* the class instance it is a member of (0: held by host code)
NoTracked == [life |-> "none", holds |-> 0, member_of |-> 0]

\* what a read of a destroyed list entry can do
UseAfterFree == {"crash", "never terminates"}

InitWalk ==
    walk = [values_ |-> <<>>, val |-> [x \in Tracked |-> NoTracked],
            rc |-> [i \in Natives |-> 0], ctx |-> "live", visited |-> <<>>,
            outcome |-> "none"]

\* classes::finalizer of a raw-owned class: delete raw; the instance's
\* destructor destroys its member values, each ~value untracks itself
raw_finalizer(S, i) ==
    [S EXCEPT !.rc[i] = 0,
              !.val = [x \in Tracked |->
                         IF S.val[x].member_of = i THEN NoTracked ELSE S.val[x]],
              !.values_ = SelectSeq(S.values_, LAMBDA x : S.val[x].member_of # i)]

\* JS_FreeValue(ctx_, val_) of the value x: the finalizer runs synchronously
\* when the last reference to a wrapper is released
free_value(S, x) ==
    LET i == S.val[x].holds
    IN  IF i = 0 THEN S
        ELSE IF S.rc[i] = 1 THEN raw_finalizer(S, i)
        ELSE [S EXCEPT !.rc[i] = @ - 1]

\* value::abandon on a tracked value: JS_FreeValue, then owner_ = nullptr,
\* unlink, ctx_ = nullptr
tracked_abandon(S, x) ==
    LET F == free_value(S, x)
    IN  [F EXCEPT !.values_ = Remove(@, x), !.val[x].holds = 0]

\* current->flink_: the entry after x in the list, 0 for the list head
flink_(list, x) ==
    LET i == CHOOSE n \in 1..Len(list) : list[n] = x
    IN  IF i = Len(list) THEN 0 ELSE list[i + 1]

\* owner::for_each(abandon) from the entry current on: next is read before
\* f(current) is called and becomes current afterwards; uaf is what reading
\* a destroyed entry does
RECURSIVE for_each(_, _, _)
for_each(S, current, uaf) ==
    IF current = 0 THEN [S EXCEPT !.outcome = "done"]
    ELSE LET next == flink_(S.values_, current)
             A == [tracked_abandon(S, current) EXCEPT !.visited = Append(@, current)]
         IN  IF next # 0 /\ A.val[next].life = "none"
             THEN [A EXCEPT !.outcome = uaf]
             ELSE for_each(A, next, uaf)

\* value(ctx, "..."): a host value that holds no wrapper
TrackedNew(x) ==
    /\ walk.ctx = "live" /\ walk.val[x].life = "none"
    /\ walk' = [walk EXCEPT !.val[x] = [life |-> "live", holds |-> 0, member_of |-> 0],
                            !.values_ = <<x>> \o @]
    /\ UNCHANGED <<lifeVars, excVars, sharedVars, callVars, boundaryVars, classVars, inst, records>>

\* value x = ctx.make_object<my_class>(args, inst): the constructor thunk
\* builds the instance i, whose member m copies an argument, then
\* make_object wraps the JSValue of the new object in x
TrackedMakeObject(x, m, i) ==
    /\ walk.ctx = "live" /\ x # m
    /\ walk.val[x].life = "none" /\ walk.val[m].life = "none"
    /\ walk.rc[i] = 0
    /\ walk' = [walk EXCEPT !.val[m] = [life |-> "live", holds |-> 0, member_of |-> i],
                            !.val[x] = [life |-> "live", holds |-> i, member_of |-> 0],
                            !.rc[i] = 1,
                            !.values_ = <<x, m>> \o @]
    /\ UNCHANGED <<lifeVars, excVars, sharedVars, callVars, boundaryVars, classVars, inst, records>>

\* value x(y): the copy constructor tracks x and dups the reference
TrackedCopy(x, y) ==
    /\ walk.ctx = "live"
    /\ walk.val[x].life = "none" /\ walk.val[y].life = "live"
    /\ walk' = [walk EXCEPT !.val[x] = [life |-> "live", holds |-> walk.val[y].holds,
                                        member_of |-> 0],
                            !.rc = IF walk.val[y].holds = 0 THEN @
                                   ELSE [@ EXCEPT ![walk.val[y].holds] = @ + 1],
                            !.values_ = <<x>> \o @]
    /\ UNCHANGED <<lifeVars, excVars, sharedVars, callVars, boundaryVars, classVars, inst, records>>

\* host code destroys its value x: ~value frees the reference and untracks
TrackedDestroy(x) ==
    /\ walk.val[x].life = "live" /\ walk.val[x].member_of = 0
    /\ walk' = [free_value(walk, x) EXCEPT !.val[x] = NoTracked,
                                            !.values_ = Remove(@, x)]
    /\ UNCHANGED <<lifeVars, excVars, sharedVars, callVars, boundaryVars, classVars, inst, records>>

\* ~context: values_.for_each(abandon), from head_.flink_
TeardownContext(uaf) ==
    /\ walk.ctx = "live"
    /\ walk' = for_each([walk EXCEPT !.ctx = "destroyed"],
                        IF walk.values_ = <<>> THEN 0 ELSE Head(walk.values_), uaf)
    /\ UNCHANGED <<lifeVars, excVars, sharedVars, callVars, boundaryVars, classVars, inst, records>>

NextTeardown ==
    \/ \E x \in Tracked : TrackedNew(x)
    \/ \E x \in Tracked, m \in Tracked, i \in Natives : TrackedMakeObject(x, m, i)
    \/ \E x \in Tracked, y \in Tracked : TrackedCopy(x, y)
    \/ \E x \in Tracked : TrackedDestroy(x)
    \/ \E uaf \in UseAfterFree : TeardownContext(uaf)

----------------------------------------------------------------------------
\* Part 8: the class_info records in context::classes_ while contexts are
\* created, moved, abandoned by the runtime and destroyed

\* a record's handles: none registered, held, or released by cleanup
NoRecords == [id \in ClassIds |-> "none"]
\* ~class_info ran for destroyed records, held of them with live handles
NoDestruction == [destroyed |-> 0, held |-> 0]

InitRecords == records = [of |-> [k \in Contexts |-> NoRecords], log |-> NoDestruction]

\* context::cleanup_classes: class_info::cleanup of every record
cleanup_classes(R, k) ==
    [R EXCEPT ![k] = [id \in ClassIds |->
                        IF R[k][id] = "held" THEN "released" ELSE R[k][id]]]

\* the destruction of the member classes_: ~class_info of every record
destroy_classes(R, k) ==
    [of |-> [R EXCEPT ![k] = NoRecords],
     log |-> [destroyed |-> Cardinality({id \in ClassIds : R[k][id] # "none"}),
              held |-> Cardinality({id \in ClassIds : R[k][id] = "held"})]]

RecordStep ==
    /\ UNCHANGED <<handed, last>>
    /\ UNCHANGED <<excVars, sharedVars, callVars, boundaryVars, classVars, inst, walk>>

\* rt.new_context() constructed in place
RecNewContext(k, j) ==
    /\ ~ub /\ rt.alive
    /\ cobj[k].life = "none" /\ jsctx[j].state = "unused"
    /\ Commit(context_ctor(Heap, k, j))
    /\ records' = [of |-> [records.of EXCEPT ![k] = NoRecords], log |-> NoDestruction]
    /\ RecordStep

\* register_class on a valid context: the record is inserted, or, when the
\* table has one for the id, destroyed at once with its handles
RecRegisterClass(k, id) ==
    /\ ~ub
    /\ cobj[k].life = "live" /\ context_valid(Heap, k)
    /\ records' =
          IF records.of[k][id] = "none"
          THEN [of |-> [records.of EXCEPT ![k][id] = "held"], log |-> NoDestruction]
          ELSE [of |-> records.of, log |-> [destroyed |-> 1, held |-> 1]]
    /\ UNCHANGED <<rt, cobj, jsctx, vobj, refcnt, ub>>
    /\ RecordStep

\* context k(std::move(from)): classes_ of k is a new, empty map
RecMoveConstruct(k, from) ==
    /\ ~ub /\ rt.alive
    /\ k # from
    /\ cobj[k].life = "none"
    /\ cobj[from].life = "live" /\ cobj[from].ctx_ # NULL
    /\ Commit(context_move_ctor(Heap, k, from))
    /\ records' = [of |-> [records.of EXCEPT ![k] = NoRecords], log |-> NoDestruction]
    /\ RecordStep

\* k = std::move(from): classes_ of k and of from stay as they are
RecMoveAssign(k, from) ==
    /\ ~ub /\ rt.alive
    /\ k # from
    /\ cobj[k].life = "live"
    /\ cobj[from].life = "live" /\ cobj[from].ctx_ # NULL
    /\ Commit(context_move_assign(Heap, k, from))
    /\ records' = [of |-> records.of, log |-> NoDestruction]
    /\ RecordStep

\* ~runtime: context::abandon of the contexts on contexts_, each with
\* cleanup_classes while it has its JSContext
RECURSIVE abandon_classes(_, _)
abandon_classes(R, s) ==
    IF s = <<>> THEN R
    ELSE abandon_classes(IF cobj[Head(s)].ctx_ # NULL THEN cleanup_classes(R, Head(s))
                         ELSE R, Tail(s))

RecDestroyRuntime ==
    /\ ~ub /\ rt.alive
    /\ Commit(runtime_dtor(Heap))
    /\ records' = [of |-> abandon_classes(records.of, rt.contexts_), log |-> NoDestruction]
    /\ RecordStep

\* ~context: cleanup_classes if it has its JSContext, then the members
RecDestroyContext(k) ==
    /\ ~ub
    /\ cobj[k].life = "live"
    /\ Commit(context_dtor(Heap, k))
    /\ records' = destroy_classes(IF cobj[k].ctx_ # NULL
                                  THEN cleanup_classes(records.of, k)
                                  ELSE records.of, k)
    /\ RecordStep

NextClassRecords ==
    \/ \E k \in Contexts, j \in JSCtxs : RecNewContext(k, j)
    \/ \E k \in Contexts, id \in ClassIds : RecRegisterClass(k, id)
    \/ \E k \in Contexts, from \in Contexts : RecMoveConstruct(k, from)
    \/ \E k \in Contexts, from \in Contexts : RecMoveAssign(k, from)
    \/ RecDestroyRuntime
    \/ \E k \in Contexts : RecDestroyContext(k)

----------------------------------------------------------------------------
\* Properties of Part 4

\* script arguments the callee was entered with
ArgCount == Len(obs.argv)

\* C11: call_global(name, a1..an) calls the global function with this =
\* undefined and with exactly the n arguments a1..an in that order; the
\* callee observes n script arguments, none when n = 0.
C11_CallGlobalPassesExactlyItsArguments ==
    (obs.entry = "call_global" /\ obs.func # NotAFunction) =>
        /\ obs.this = JSUndefined
        /\ ArgCount = Len(obs.host)
        /\ obs.argv = jsvalue_list(obs.host)

\* C12: a native callable of declared arity N entered with k script
\* arguments receives an argument list of length max(N, k) whose entries
\* 1..k are the script arguments in call order and whose entries k+1..N,
\* when k < N, are undefined.
C12_ArgumentListLength ==
    obs.func.kind \in NativeKinds =>
        LET a == obs.seen.a.a
        IN  /\ Len(a) = Max(obs.func.N, ArgCount)
            /\ \A i \in 1..ArgCount : a[i] = obs.argv[i]
            /\ \A i \in (ArgCount + 1)..obs.func.N : a[i] = JSUndefined

\* script called a closure of two positional parameters that also takes the
\* argument list with one argument that is not undefined: the list has two
\* entries, the second is undefined
C12_Witness ==
    /\ obs.entry = "script" /\ obs.func = ClosureWithArgs(2)
    /\ ArgCount = 1 /\ obs.argv[1] # JSUndefined
    /\ Len(obs.seen.list.a) = 2
    /\ obs.seen.list.a[1] = obs.argv[1]
    /\ obs.seen.list.a[2] = JSUndefined

\* C13: a native callable with N positional parameters observes exactly N
\* parameters for every script argument count k (arguments past position N
\* are dropped, missing ones are undefined), while a callable that takes
\* the argument list sees all k arguments through it, in order.
C13_PositionalParametersAreExactlyN ==
    /\ obs.func.kind \in {"closure", "closure(args)"} =>
          /\ Len(obs.seen.params) = obs.func.N
          /\ \A i \in 1..obs.func.N :
                obs.seen.params[i] = IF i <= ArgCount THEN obs.argv[i] ELSE JSUndefined
    /\ obs.func.kind = "closure(args)" =>
          /\ Len(obs.seen.list.a) >= ArgCount
          /\ SubSeq(obs.seen.list.a, 1, ArgCount) = obs.argv

\* a closure of one positional parameter was called with two arguments and
\* observed the first one only
C13_Witness ==
    /\ obs.func = Closure(1) /\ ArgCount = 2
    /\ obs.argv[1] # obs.argv[2]
    /\ obs.seen.params = <<obs.argv[1]>>

----------------------------------------------------------------------------
\* Properties of Part 5

\* C14: an uncaught script Error object that reaches eval, a function call
\* or a failed property set is raised to the host code as value_error (the
\* message with the engine's stack text); other thrown values are raised as
\* value_exception.
C14_ErrorObjectRaisesValueError ==
    (/\ op.name \in {"eval", "call", "set_property"}
     /\ op.this = "object"
     /\ op.engine.k = "script throw"
     /\ op.stored = NoException) =>
        op.result = Raise(IF JS_IsError(op.engine.val)
                          THEN value_error(op.engine.val)
                          ELSE value_exception(op.engine.val))

\* C17: a get_property or set_property that fails inside the engine raises
\* the failure from that same call (the original native exception when a
\* getter or setter threw one) and leaves nothing pending in the context.
C17_PropertyFailureRaisedByTheCall ==
    (/\ op.name \in {"get_property", "set_property"}
     /\ op.engine.k # "ok"
     /\ op.stored = NoException) =>
        /\ op.result.k = "throw"
        /\ (op.engine.k = "native throw" /\ op.engine.ex.type # "throw_exception") =>
              op.result.ex = op.engine.ex
        /\ excpt_ = NoException

\* C18: while eval, a function call or make_object runs the engine, the
\* context's call level is one higher than it was before the call.
C18_BoundaryCallRaisesCallLevel ==
    (op.name \in {"eval", "call", "make_object"} /\ Alive) =>
        op.level = op.before + 1

\* C28: for every sequence of boundary calls and host-side property gets
\* and sets, the context's exception token is empty whenever a thunk stores
\* a forwarded native exception (the assertion of store_exception holds) and
\* is empty whenever control is back in host code.
C28_TokenEmptyAtStoreAndInHostCode ==
    /\ op.result # Signal("abort")
    /\ excpt_ = NoException

----------------------------------------------------------------------------
\* Properties of Part 6

\* C19: every register_class call, a repeated one on the same context
\* included, records the constructor and prototype it has just created in
\* the context's class table, so the table holds the pair of the most recent
\* call and make_object uses that constructor.
C19_TableHoldsMostRecentPair ==
    /\ (reg.call = "register_class" /\ reg.outcome # "throws") =>
          /\ reg.outcome = "ok"
          /\ classes_[reg.ctx][reg.id] = reg.info
    /\ \A c \in Contexts, id \in ClassIds :
          classes_[c][id] # NoInfo =>
              /\ classes_[c][id].ctor = binding[c][id]
              /\ classes_[c][id].proto = class_proto[c][id]
    /\ reg.call = "make_object" => reg.info.ctor = binding[reg.ctx][reg.id]

\* C20: register_class of one class on different contexts of a runtime
\* succeeds on each of them (the first call on a context never fails,
\* whatever was registered on other contexts): the class id is registered
\* with the engine once, and each context's table holds the pair created
\* for that context, no object of which is in another context's table.
C20_RegisterOnTwoContexts ==
    /\ \A id \in ClassIds : registered[id] <= 1
    /\ (reg.call = "register_class" /\ reg.first) =>
          /\ reg.outcome = "ok"
          /\ registered[reg.id] = 1
          /\ reg.info = [ctor |-> made, proto |-> made - 1]
          /\ classes_[reg.ctx][reg.id] = reg.info
    /\ \A c1, c2 \in Contexts, id \in ClassIds :
          (c1 # c2 /\ classes_[c1][id] # NoInfo /\ classes_[c2][id] # NoInfo) =>
              /\ classes_[c1][id].ctor # classes_[c2][id].ctor
              /\ classes_[c1][id].proto # classes_[c2][id].proto

\* the class was registered on context 1 and then, successfully, on
\* context 2
C20_Witness ==
    /\ reg = [call |-> "register_class", ctx |-> 2, id |-> 1, first |-> TRUE,
              info |-> [ctor |-> 4, proto |-> 3], outcome |-> "ok"]
    /\ classes_[1][1] = [ctor |-> 2, proto |-> 1]
    /\ classes_[2][1] = [ctor |-> 4, proto |-> 3]
    /\ registered[1] = 1

\* the register_class call just made had an engine call fail
EngineFailed == "failure" \in DOMAIN reg

C22_FailedMakeObjectClearsInst ==
    (inst.call = "make_object" /\ inst.engine.k # "ok") =>
        /\ inst.result.k = "throw"
        /\ inst.inst = "null"

----------------------------------------------------------------------------
\* Properties of Part 7

\* C26: the bulk invalidation run by the context's teardown terminates and
\* visits every tracked value exactly once, also when releasing a value
\* runs a class finalizer that destroys an instance whose member values are
\* in the list: the entry read as next is never one that the callback
\* destroyed.
C26_BulkInvalidationVisitsEachOnce ==
    walk.ctx = "destroyed" =>
        /\ walk.outcome = "done"
        /\ \A a, b \in 1..Len(walk.visited) :
              walk.visited[a] = walk.visited[b] => a = b
        /\ walk.values_ = <<>>
        /\ \A x \in Tracked : walk.val[x].life = "live" => x \in Range(walk.visited)

----------------------------------------------------------------------------
\* Properties of Part 8

\* C30: whenever a class_info record is destroyed its constructor and
\* prototype handles have been released before (the assertions of its
\* destructor hold), for every sequence of register_class calls, context
\* moves, abandonment by the runtime and context destruction.
C30_RecordsReleasedBeforeDestruction ==
    records.log.held = 0

----------------------------------------------------------------------------
Init ==
    /\ InitLife /\ InitExc /\ InitShared /\ InitCalls /\ InitBoundary /\ InitClasses
    /\ InitMake /\ InitWalk /\ InitRecords

Spec == Init /\ [][NextLife]_vars
SpecMethods == Init /\ [][NextMethods]_vars
SpecContextMove == Init /\ [][NextContextMove]_vars
SpecExc == Init /\ [][NextExc]_vars
SpecThunks == Init /\ [][NextThunks]_vars
SpecShared == Init /\ [][NextShared]_vars
SpecSharedFailures == Init /\ [][NextSharedFailures]_vars
SpecCalls == Init /\ [][NextCalls]_vars
SpecMarshal == Init /\ [][NextMarshal]_vars
SpecBoundary == Init /\ [][NextBoundary]_vars
SpecClasses == Init /\ [][NextClasses]_vars
SpecClassFailures == Init /\ [][NextClassFailures]_vars
SpecMakeObject == Init /\ [][NextMakeObject]_vars
SpecTeardown == Init /\ [][NextTeardown]_vars
SpecClassRecords == Init /\ [][NextClassRecords]_vars

====
